---- MODULE Spec2Model ----
(***************************************************************************)
(* NodePulse (src/nodepulse.py): the sync estimator (SyncStatsTracker),    *)
(* the refresh orchestrator (NodePulseApp.refresh_data and its triggers)   *)
(* and the configuration store (BitcoinConfigManager / SettingsPanel).     *)
(*                                                                         *)
(* A Python value that may be None is a sequence: <<>> is None and <<v>>   *)
(* is the value v.  Wall-clock time is a count of whole seconds; a         *)
(* timedelta is its total number of microseconds.                          *)
(***************************************************************************)
EXTENDS Integers, Sequences, FiniteSets, TLC

None == <<>>
Some(v) == <<v>>
Val(o) == o[1]

\* Python truthiness of None, False and True
Truthy(o) == o = Some(TRUE)

\* Python's `a and b` for a in {None, False, True} and a boolean b:
\* a itself when a is falsy, b otherwise
PyAnd(a, b) == IF Truthy(a) THEN Some(b) ELSE a

Last(s) == s[Len(s)]

(***************************************************************************)
(* Bounds                                                                  *)
(***************************************************************************)
\* update() calls made on a tracker
MaxSamples == 3
\* block and header heights are drawn from 0..MaxHeight
MaxHeight == 2
\* seconds the clock may advance between two reads of datetime.now()
MaxDt == 1

\* refresh cycles started (mount, timer ticks, manual refreshes)
MaxCycles == 4
\* refresh cycles started when only the peer count varies
MaxPeerCycles == 5
\* apply_changes workers started
MaxApplies == 2
\* write_config calls
MaxWrites == 2
\* refresh cycles started when any query of the batch may fail
MaxPartialCycles == 2
\* manual refresh requests
MaxRequests == 3
\* reloads of the config by hand
MaxReloads == 1
\* lines read_config has read when reading raises
MaxReadLines == 2
\* samples from which a rate and an ETA are computed
MaxRateSamples == 2
\* update() calls on one tracker, more than its deque holds
MaxRing == 62
\* firings of the controls panel's status timer
MaxStatusTicks == 2

Heights == 0..MaxHeight

(***************************************************************************)
(* State                                                                   *)
(***************************************************************************)
VARIABLES
    clock,      \* datetime.now(), in seconds
    tracker,    \* SyncStatsTracker: history, initial_blocks, was_syncing
    calls,      \* history variable: per update() call, its flag and result
    query       \* history variable: the last get_blocks_per_hour/get_eta
                \* evaluation on the current tracker, its arguments and
                \* results; forgotten when update() changes the tracker

trackerVars == <<clock, tracker, calls, query>>

VARIABLES
    mounted,                \* NodePulseApp.on_mount has run
    active,                 \* TabbedContent.active
    worker,                 \* the refresh_data worker: where it is suspended
                            \* and the locals it holds
    node_was_responsive,    \* NodePulseApp.node_was_responsive
    last_peer_count,        \* NodePulseApp.last_peer_count
    block_refresh_counter,  \* NodePulseApp._block_refresh_counter
    alerts,                 \* AlertsPanel.alerts
    panels,                 \* the data each panel was last given
    log                     \* history variable: one entry per refresh cycle

appVars == <<mounted, active, worker, node_was_responsive, last_peer_count,
             block_refresh_counter, alerts, panels, log>>

VARIABLES
    fs,                 \* the config file: whether it exists, its text, and
                        \* the backup files beside it (by timestamp)
    current_settings,   \* SettingsPanel.current_settings
    pending_changes,    \* SettingsPanel.pending_changes
    settings_loaded,    \* SettingsPanel.on_mount has run
    applying,           \* the apply_changes worker: where it is suspended
    commands,           \* history variable: the stop/start commands issued
    applied             \* history variable: one entry per apply_changes run

cfgVars == <<fs, current_settings, pending_changes, settings_loaded,
             applying, commands, applied>>

VARIABLES
    checked,    \* history variable: the last validate_setting evaluation, its
                \* arguments and result
    wc          \* a write_config execution: where it is, its locals, and
                \* what it has done so far

storeVars == <<checked, wc>>

VARIABLES
    added,      \* history variable: the alerts given to add_alert since the
                \* alerts were last cleared, in order
    requests    \* history variable: the manual refresh requests, each with
                \* whether a worker was running and the cycle it started

histVars == <<added, requests>>

VARIABLES
    ctl         \* the ControlsPanel's restart_node worker: where it is
                \* suspended, what it has done, and the status timer's ticks

vars == <<trackerVars, appVars, cfgVars, storeVars, histVars, ctl>>

(***************************************************************************)
(* SyncStatsTracker                                                        *)
(***************************************************************************)
max_history == 60

\* the trailing sub-window of get_blocks_per_hour: list(self.history)[-12:]
Window == 12

SyncStatsTracker_init ==
    [history |-> <<>>, initial_blocks |-> None, was_syncing |-> None]

\* update() without its self.history.append(...)
deque_append_none(d, x) == d

\* a deque without maxlen: nothing ever leaves it
deque_append_unbounded(d, x) == Append(d, x)

\* deque(maxlen=max_history).append: the oldest entry leaves a full deque
deque_append(d, x) ==
    IF Len(d) >= max_history THEN Append(Tail(d), x) ELSE Append(d, x)

\* update with a level-triggered result: true on every call that is not
\* syncing, whatever the previous call saw
update_level(tr, now, blocks, headers, is_syncing) ==
    [tracker |->
        [history |-> deque_append(tr.history,
                        [time |-> now, blocks |-> blocks,
                         headers |-> headers, is_syncing |-> is_syncing]),
         initial_blocks |-> IF tr.initial_blocks = None
                            THEN Some(blocks) ELSE tr.initial_blocks,
         was_syncing |-> Some(is_syncing)],
     ret |-> Some(~is_syncing)]

\* SyncStatsTracker.update: the tracker after the call and the value returned
update(tr, now, blocks, headers, is_syncing) ==
    LET sync_completed == PyAnd(tr.was_syncing, ~is_syncing)
    IN  [tracker |->
            [history |-> deque_append(tr.history,
                            [time |-> now, blocks |-> blocks,
                             headers |-> headers, is_syncing |-> is_syncing]),
             initial_blocks |-> IF tr.initial_blocks = None
                                THEN Some(blocks) ELSE tr.initial_blocks,
             was_syncing |-> Some(is_syncing)],
         ret |-> sync_completed]

\* s[-n:]
LastN(s, n) == IF Len(s) <= n THEN s ELSE SubSeq(s, Len(s) - n + 1, Len(s))

\* get_blocks_per_hour over the whole deque: list(self.history) without the
\* [-12:]
get_blocks_per_hour_all(tr) ==
    IF Len(tr.history) < 2 THEN [blocks |-> 0, secs |-> 1]
    ELSE LET recent_data == tr.history
             oldest == recent_data[1]
             newest == Last(recent_data)
             secs == newest.time - oldest.time
         IN  IF Len(recent_data) < 2 THEN [blocks |-> 0, secs |-> 1]
             ELSE IF secs = 0 THEN [blocks |-> 0, secs |-> 1]
             ELSE [blocks |-> newest.blocks - oldest.blocks, secs |-> secs]

\* SyncStatsTracker.get_blocks_per_hour.  The rate block_diff / time_diff,
\* time_diff = secs / 3600 hours, is kept exact as the pair (blocks, secs):
\* it is blocks * 3600 / secs blocks per hour, and 0 when blocks = 0.
get_blocks_per_hour(tr) ==
    IF Len(tr.history) < 2 THEN [blocks |-> 0, secs |-> 1]
    ELSE LET recent_data == LastN(tr.history, Window)
             oldest == recent_data[1]
             newest == Last(recent_data)
             secs == newest.time - oldest.time
         IN  IF Len(recent_data) < 2 THEN [blocks |-> 0, secs |-> 1]
             ELSE IF secs = 0 THEN [blocks |-> 0, secs |-> 1]
             ELSE [blocks |-> newest.blocks - oldest.blocks, secs |-> secs]

\* sign of a rate (the sign of blocks / secs)
RateSign(bph) ==
    IF bph.blocks = 0 THEN 0
    ELSE IF (bph.blocks > 0) = (bph.secs > 0) THEN 1 ELSE -1

Abs(n) == IF n < 0 THEN 0 - n ELSE n

\* n / d for n >= 0, d > 0, rounded to the nearest integer, ties to even
RoundHalfEven(n, d) ==
    LET q == n \div d
        r == n % d
    IN  IF 2 * r < d THEN q
        ELSE IF 2 * r > d THEN q + 1
        ELSE IF q % 2 = 0 THEN q ELSE q + 1

\* timedelta(hours=blocks_remaining / bph), in microseconds: a timedelta
\* holds whole microseconds, rounded half to even.  In hours the quotient is
\* blocks_remaining * secs / (3600 * blocks), so in microseconds it is
\* blocks_remaining * secs * 10^6 / blocks.
timedelta_hours(blocks_remaining, bph) ==
    LET n == blocks_remaining * bph.secs * 1000000
        d == bph.blocks
        mag == RoundHalfEven(Abs(n), Abs(d))
    IN  IF (n < 0) = (d < 0) THEN mag ELSE 0 - mag

\* get_eta with `>` for `>=`: a caught-up node gets a zero duration
get_eta_strict(tr, current_blocks, total_headers) ==
    LET bph == get_blocks_per_hour(tr)
    IN  IF bph.blocks = 0 \/ current_blocks > total_headers THEN None
        ELSE Some(timedelta_hours(total_headers - current_blocks, bph))

\* get_eta with whole hours (`//` for `/`): the hours are floored before the
\* timedelta is built
get_eta_floor(tr, current_blocks, total_headers) ==
    LET bph == get_blocks_per_hour(tr)
        n == (total_headers - current_blocks) * bph.secs
        d == 3600 * bph.blocks
    IN  IF bph.blocks = 0 \/ current_blocks >= total_headers THEN None
        ELSE IF d > 0 THEN Some((n \div d) * 3600 * 1000000)
        ELSE Some(0 - (((n + Abs(d) - 1) \div Abs(d)) * 3600 * 1000000))

\* SyncStatsTracker.get_eta
get_eta(tr, current_blocks, total_headers) ==
    LET bph == get_blocks_per_hour(tr)
    IN  IF bph.blocks = 0 \/ current_blocks >= total_headers THEN None
        ELSE Some(timedelta_hours(total_headers - current_blocks, bph))

(***************************************************************************)
(* Tracker operations as actions                                           *)
(***************************************************************************)
\* one call of tracker.update(blocks, headers, is_syncing), dt seconds after
\* the previous read of the clock
\* the baseline is kept apart from the ring: only the newest sample is read
get_blocks_synced_window(tr) ==
    IF tr.history = <<>> \/ tr.initial_blocks = None THEN 0
    ELSE Last(tr.history).blocks - tr.history[1].blocks

get_blocks_synced(tr) ==
    IF tr.history = <<>> \/ tr.initial_blocks = None THEN 0
    ELSE Last(tr.history).blocks - Val(tr.initial_blocks)

Update(blocks, headers, is_syncing, dt) ==
    /\ LET r == update(tracker, clock + dt, blocks, headers, is_syncing)
       IN  /\ tracker' = r.tracker
           /\ calls' = Append(calls, [is_syncing |-> is_syncing, ret |-> r.ret,
                                    blocks |-> blocks])
    /\ clock' = clock + dt
    /\ query' = None
    /\ UNCHANGED <<ctl, histVars, storeVars, appVars, cfgVars>>

\* one evaluation of get_blocks_per_hour(), get_eta(blocks, headers) and
\* get_blocks_synced()
Query(blocks, headers) ==
    /\ query' = Some([blocks |-> blocks, headers |-> headers,
                      bph |-> get_blocks_per_hour(tracker),
                      synced |-> get_blocks_synced(tracker),
                      eta |-> get_eta(tracker, blocks, headers)])
    /\ UNCHANGED <<ctl, histVars, storeVars, clock, tracker, calls, appVars, cfgVars>>

(***************************************************************************)
(* AlertsPanel                                                             *)
(***************************************************************************)
\* self.alerts = self.alerts[-5:]
MaxAlerts == 5

Alert(message, level) == [message |-> message, level |-> level]

\* add_alert keeping the five oldest entries: alerts[:5] for alerts[-5:]
add_alert_oldest(al, now, message, level) ==
    SubSeq(Append(al, [time |-> now % 86400, message |-> message,
                       level |-> level]),
           1, IF Len(al) + 1 <= MaxAlerts THEN Len(al) + 1 ELSE MaxAlerts)

\* AlertsPanel.add_alert; the timestamp is strftime("%H:%M:%S"), the time of
\* day without the date
add_alert(al, now, message, level) ==
    LastN(Append(al, [time |-> now % 86400, message |-> message,
                      level |-> level]), MaxAlerts)

\* add_alert for each of `emitted`, in order
RECURSIVE add_alerts(_, _, _)
add_alerts(al, now, emitted) ==
    IF emitted = <<>> THEN al
    ELSE add_alerts(add_alert(al, now, emitted[1].message, emitted[1].level),
                    now, Tail(emitted))

\* the entries that add_alert appends for `emitted`, in order
Stamped(now, emitted) ==
    [i \in DOMAIN emitted |->
        [time |-> now % 86400, message |-> emitted[i].message,
         level |-> emitted[i].level]]

(***************************************************************************)
(* NodePulseApp: the refresh worker                                        *)
(***************************************************************************)
Tabs == {"home", "sync", "blockchain", "controls", "settings"}

NoWorker ==
    [phase |-> "none", active_tab |-> "", node_running |-> FALSE,
     blockchain_info |-> None, network_info |-> None, peer_info |-> None,
     mempool_info |-> None, fee_estimates |-> None, valid_hashes |-> <<>>]

NoPanels ==
    [dashboard |-> None, sync |-> None, sync_stats |-> None,
     storage |-> None, network |-> None, mempool |-> None,
     recent |-> [blocks |-> <<>>, cached_height |-> None]]

NewCycle == [chain |-> "pending", peers |-> None, alerts |-> <<>>,
             end |-> "running", tab |-> "", results |-> None, shown |-> {},
             queries |-> {}, counted |-> FALSE]

\* the history keeps the gather results and the updated panels of the
\* newest cycle only
Forget(lg) ==
    [i \in DOMAIN lg |-> [lg[i] EXCEPT !.results = None, !.shown = {}]]

\* Worker cancellation: every cycle still running is cancelled
cancel_group(lg) ==
    [i \in DOMAIN lg |->
        IF lg[i].end = "running" THEN [lg[i] EXCEPT !.end = "cancelled"]
        ELSE lg[i]]

\* run_worker(self.refresh_data(), exclusive=True): the workers of the group
\* are cancelled, then the new worker is started
run_worker(lg) == Append(cancel_group(Forget(lg)), NewCycle)

\* refresh_data up to its first await: the locals read before the gather
start_refresh(node_running) ==
    [NoWorker EXCEPT !.phase = "gather", !.active_tab = active,
                     !.node_running = node_running]

\* the running cycle's entry, changed by f
Running(lg) == CHOOSE i \in DOMAIN lg : lg[i].end = "running"

\* BitcoinNodeData.get_uptime: 0 when the command failed
get_uptime(result) == IF result # None THEN Val(result) ELSE 0

\* the responsiveness latch that is never cleared
check_responsive_unlatched(was_responsive, blockchain_info) ==
    IF blockchain_info = None
    THEN [emit |-> IF was_responsive
                   THEN <<Alert("Node not responding!", "error")>> ELSE <<>>,
          node_was_responsive |-> was_responsive, returns |-> TRUE]
    ELSE [emit |-> IF ~was_responsive
                   THEN <<Alert("Node connection restored", "success")>>
                   ELSE <<>>,
          node_was_responsive |-> TRUE, returns |-> FALSE]

\* the responsiveness latch that is never set again
check_responsive_unrestored(was_responsive, blockchain_info) ==
    IF blockchain_info = None
    THEN [emit |-> IF was_responsive
                   THEN <<Alert("Node not responding!", "error")>> ELSE <<>>,
          node_was_responsive |-> FALSE, returns |-> TRUE]
    ELSE [emit |-> IF ~was_responsive
                   THEN <<Alert("Node connection restored", "success")>>
                   ELSE <<>>,
          node_was_responsive |-> was_responsive, returns |-> FALSE]

\* the failed branch without its `return`
check_responsive_unreturned(was_responsive, blockchain_info) ==
    IF blockchain_info = None
    THEN [emit |-> IF was_responsive
                   THEN <<Alert("Node not responding!", "error")>> ELSE <<>>,
          node_was_responsive |-> FALSE, returns |-> FALSE]
    ELSE [emit |-> IF ~was_responsive
                   THEN <<Alert("Node connection restored", "success")>>
                   ELSE <<>>,
          node_was_responsive |-> TRUE, returns |-> FALSE]

\* refresh_data, `if blockchain_info is None: ... else: ...`: the alerts
\* emitted, the latch afterwards, and whether the cycle returns here
check_responsive(was_responsive, blockchain_info) ==
    IF blockchain_info = None
    THEN [emit |-> IF was_responsive
                   THEN <<Alert("Node not responding!", "error")>> ELSE <<>>,
          node_was_responsive |-> FALSE, returns |-> TRUE]
    ELSE [emit |-> IF ~was_responsive
                   THEN <<Alert("Node connection restored", "success")>>
                   ELSE <<>>,
          node_was_responsive |-> TRUE, returns |-> FALSE]

LowPeers(n) == Alert("Low peer count: " \o ToString(n), "warning")
PeersRecovered(n) == Alert("Peer count recovered: " \o ToString(n), "success")

\* the peer check with a level-triggered warning: it warns on every cycle
\* below the threshold
check_peers_level(last, network_info) ==
    IF network_info = None THEN [emit |-> <<>>, last_peer_count |-> last]
    ELSE LET peer_count == Val(network_info).connections
         IN  [emit |->
                IF last = None THEN <<>>
                ELSE IF peer_count < 3 THEN <<LowPeers(peer_count)>>
                ELSE IF peer_count >= 3 /\ Val(last) < 3
                     THEN <<PeersRecovered(peer_count)>>
                ELSE <<>>,
              last_peer_count |-> Some(peer_count)]

\* a cycle without a peer count forgets the last one
check_peers_forgetful(last, network_info) ==
    IF network_info = None THEN [emit |-> <<>>, last_peer_count |-> None]
    ELSE LET peer_count == Val(network_info).connections
         IN  [emit |->
                IF last = None THEN <<>>
                ELSE IF peer_count < 3 /\ Val(last) >= 3
                     THEN <<LowPeers(peer_count)>>
                ELSE IF peer_count >= 3 /\ Val(last) < 3
                     THEN <<PeersRecovered(peer_count)>>
                ELSE <<>>,
              last_peer_count |-> Some(peer_count)]

\* refresh_data, `if network_info: ...`: the alerts emitted and
\* last_peer_count afterwards
check_peers(last, network_info) ==
    IF network_info = None THEN [emit |-> <<>>, last_peer_count |-> last]
    ELSE LET peer_count == Val(network_info).connections
         IN  [emit |->
                IF last = None THEN <<>>
                ELSE IF peer_count < 3 /\ Val(last) >= 3
                     THEN <<LowPeers(peer_count)>>
                ELSE IF peer_count >= 3 /\ Val(last) < 3
                     THEN <<PeersRecovered(peer_count)>>
                ELSE <<>>,
              last_peer_count |-> Some(peer_count)]

\* SyncStatsPanel.update_data: the figures it reads from the tracker
sync_stats(tr, blockchain_info) ==
    [bph |-> get_blocks_per_hour(tr),
     eta |-> get_eta(tr, Val(blockchain_info).blocks,
                     Val(blockchain_info).headers)]

\* refresh_data's last statements: the network and mempool panels
update_network_mempool(pn, w, fee_estimates) ==
    [pn EXCEPT
        !.network = IF w.network_info # None
                    THEN Some([network_info |-> w.network_info,
                               peer_info |-> w.peer_info])
                    ELSE @,
        !.mempool = IF w.mempool_info # None
                    THEN Some([mempool_info |-> w.mempool_info,
                               fee_estimates |-> fee_estimates])
                    ELSE @]

\* the panels that refresh_data's last statements update
shown_network_mempool(w) ==
    (IF w.network_info # None THEN {"network"} ELSE {})
    \cup (IF w.mempool_info # None THEN {"mempool"} ELSE {})

\* the running cycle has updated the panels `names`
Shown(lg, names) == [lg EXCEPT ![Running(lg)].shown = @ \cup names]

\* the running cycle has issued the queries `names`
Issued(lg, names) == [lg EXCEPT ![Running(lg)].queries = @ \cup names]

\* the running cycle has incremented _block_refresh_counter
Counted(lg) == [lg EXCEPT ![Running(lg)].counted = TRUE]

\* the cycle returns: its worker is gone
Finish(lg) == [lg EXCEPT ![Running(lg)].end = "done"]

\* a trigger: the worker is (re)started
StartCycle(node_running) ==
    /\ worker' = start_refresh(node_running)
    /\ log' = run_worker(log)

\* NodePulseApp.on_mount
OnMount(node_running) ==
    /\ ~mounted
    /\ mounted' = TRUE
    /\ alerts' = add_alert(alerts, clock, "NodePulse v1.3 started", "success")
    /\ added' = added \o Stamped(clock, <<Alert("NodePulse v1.3 started",
                                                "success")>>)
    /\ StartCycle(node_running)
    /\ UNCHANGED <<ctl, requests, storeVars, cfgVars, trackerVars, active, node_was_responsive, last_peer_count,
                   block_refresh_counter, panels>>

\* the set_interval(10, ...) callback
TimerTick(node_running) ==
    /\ mounted
    /\ StartCycle(node_running)
    /\ UNCHANGED <<ctl, histVars, storeVars, cfgVars, trackerVars, mounted, active, node_was_responsive,
                   last_peer_count, block_refresh_counter, alerts, panels>>

\* NodePulseApp.action_refresh
action_refresh(node_running) ==
    /\ mounted
    /\ alerts' = add_alert(alerts, clock, "Manual refresh triggered", "info")
    /\ added' = added \o Stamped(clock, <<Alert("Manual refresh triggered",
                                                "info")>>)
    /\ requests' = Append(requests,
                      [by |-> "key", idle |-> worker.phase = "none",
                       cycle |-> Len(log) + 1])
    /\ StartCycle(node_running)
    /\ UNCHANGED <<ctl, storeVars, cfgVars, trackerVars, mounted, active, node_was_responsive,
                   last_peer_count, block_refresh_counter, panels>>

\* ControlsPanel.on_click on action-refresh: the alert, then
\* `self.app.refresh_data()`, a call of the coroutine function whose
\* result is neither awaited nor given to run_worker: the coroutine object
\* is dropped and none of refresh_data's statements run
on_click_refresh ==
    /\ mounted
    /\ alerts' = add_alert(alerts, clock, "Manual refresh triggered", "info")
    /\ added' = added \o Stamped(clock, <<Alert("Manual refresh triggered",
                                                "info")>>)
    /\ requests' = Append(requests,
                      [by |-> "controls", idle |-> worker.phase = "none",
                       cycle |-> 0])
    /\ UNCHANGED <<ctl, storeVars, cfgVars, trackerVars, mounted, active, worker,
                   node_was_responsive, last_peer_count,
                   block_refresh_counter, panels, log>>

\* ControlsPanel.on_click on action-clear
on_click_clear ==
    /\ mounted
    /\ alerts' = add_alert(<<>>, clock, "Alerts cleared", "info")
    /\ added' = Stamped(clock, <<Alert("Alerts cleared", "info")>>)
    /\ UNCHANGED <<ctl, requests, storeVars, cfgVars, trackerVars, mounted, active,
                   worker, node_was_responsive, last_peer_count,
                   block_refresh_counter, panels, log>>

\* NodePulseApp.action_switch_tab
action_switch_tab(tab_id) ==
    /\ mounted
    /\ active' = tab_id
    /\ UNCHANGED <<ctl, histVars, storeVars, cfgVars, trackerVars, mounted, worker, node_was_responsive,
                   last_peer_count, block_refresh_counter, alerts, panels,
                   log>>

\* refresh_data from the first gather's results to the next await or the
\* return: the dashboard, the responsiveness latch, the tracker, the peer
\* check, the sync panels
GatherDone(blockchain_info, network_info, peer_info, mempool_info, up, dt) ==
    /\ worker.phase = "gather"
    /\ clock' = clock + dt
    /\ LET now == clock + dt
           uptime == get_uptime(up)
           pn1 == IF worker.active_tab = "home"
                  THEN [panels EXCEPT !.dashboard =
                          Some([node_running |-> worker.node_running,
                                blockchain_info |-> blockchain_info,
                                network_info |-> network_info,
                                uptime |-> uptime])]
                  ELSE panels
           r == check_responsive(node_was_responsive, blockchain_info)
           seen == [log EXCEPT
                      ![Running(log)].tab = worker.active_tab,
                      ![Running(log)].results =
                          Some([blockchain_info |-> blockchain_info,
                                network_info |-> network_info,
                                peer_info |-> peer_info,
                                mempool_info |-> mempool_info,
                                uptime |-> up]),
                      ![Running(log)].shown =
                          IF worker.active_tab = "home" THEN {"dashboard"}
                          ELSE {}]
       IN  /\ node_was_responsive' = r.node_was_responsive
           /\ IF r.returns
              THEN /\ alerts' = add_alerts(alerts, now, r.emit)
                   /\ added' = added \o Stamped(now, r.emit)
                   /\ panels' = pn1
                   /\ worker' = NoWorker
                   /\ log' = Finish([seen EXCEPT
                                ![Running(log)].chain = "fail",
                                ![Running(log)].alerts = r.emit])
                   /\ UNCHANGED <<tracker, calls, query, last_peer_count>>
              ELSE IF blockchain_info = None
              THEN \* blockchain_info.get(...) on None raises AttributeError
                   /\ alerts' = add_alerts(alerts, now, r.emit)
                   /\ added' = added \o Stamped(now, r.emit)
                   /\ panels' = pn1
                   /\ worker' = NoWorker
                   /\ log' = [seen EXCEPT
                                ![Running(log)].alerts = r.emit,
                                ![Running(log)].end = "raised"]
                   /\ UNCHANGED <<tracker, calls, query, last_peer_count>>
              ELSE LET bi == Val(blockchain_info)
                       u == update(tracker, now, bi.blocks, bi.headers,
                                   bi.initialblockdownload)
                       done == IF Truthy(u.ret)
                               THEN <<Alert("Blockchain sync completed!",
                                            "success")>>
                               ELSE <<>>
                       p == check_peers(last_peer_count, network_info)
                       emit == r.emit \o done \o p.emit
                       lg == [seen EXCEPT
                                ![Running(log)].chain = "ok",
                                ![Running(log)].shown =
                                    @ \cup (IF worker.active_tab = "sync"
                                            THEN {"sync", "sync_stats"}
                                            ELSE {}),
                                ![Running(log)].peers =
                                    IF network_info = None THEN None
                                    ELSE Some(Val(network_info).connections),
                                ![Running(log)].alerts = emit]
                   IN  /\ tracker' = u.tracker
                       /\ calls' = Append(calls,
                              [is_syncing |-> bi.initialblockdownload,
                               ret |-> u.ret, blocks |-> bi.blocks])
                       /\ query' = None
                       /\ alerts' = add_alerts(alerts, now, emit)
                       /\ added' = added \o Stamped(now, emit)
                       /\ last_peer_count' = p.last_peer_count
                       /\ panels' =
                            IF worker.active_tab = "sync"
                            THEN [pn1 EXCEPT
                                    !.sync = blockchain_info,
                                    !.sync_stats =
                                        Some(sync_stats(u.tracker,
                                                        blockchain_info))]
                            ELSE pn1
                       /\ IF worker.active_tab = "blockchain"
                          THEN /\ worker' = [worker EXCEPT
                                    !.phase = "fees",
                                    !.blockchain_info = blockchain_info,
                                    !.network_info = network_info,
                                    !.peer_info = peer_info,
                                    !.mempool_info = mempool_info]
                               /\ log' = Issued(lg, {"fees"})
                          ELSE /\ worker' = NoWorker
                               /\ log' = Finish(lg)
    /\ UNCHANGED <<ctl, requests, storeVars, cfgVars, mounted, active,
                   block_refresh_counter>>

\* RecentBlocksPanel.update_data: blocks_to_show
blocks_to_show == 3

\* heights = [current_height - i for i in range(blocks_to_show)
\*            if current_height - i >= 0]
recent_heights(current_height) ==
    LET n == IF current_height + 1 < blocks_to_show
             THEN current_height + 1 ELSE blocks_to_show
    IN  [i \in 1..n |-> current_height - (i - 1)]

\* the heights of `hs`, in order, whose query is among the answered ones
Answered(hs, found) == SelectSeq(hs, LAMBDA h : h \in found)

\* the lookup that is due on every call
lookup_due_always(counter) == TRUE

\* `if self._block_refresh_counter % 3 == 0`
lookup_due(counter) == counter % 3 = 0

\* refresh_data from the fee estimates to the next await or the return: the
\* storage panel, the lookup counter, the start of the recent-block lookup
FeesDone(f1, f3, f6) ==
    /\ worker.phase = "fees"
    /\ LET fee_estimates == Some([f1 |-> f1, f3 |-> f3, f6 |-> f6])
           blocks == Val(worker.blockchain_info).blocks
           counter == (IF block_refresh_counter = None THEN 0
                       ELSE Val(block_refresh_counter)) + 1
           pn1 == [panels EXCEPT !.storage = worker.blockchain_info]
           skip == \/ blocks = 0
                   \/ /\ panels.recent.cached_height = Some(blocks)
                      /\ panels.recent.blocks # <<>>
       IN  /\ block_refresh_counter' = Some(counter)
           /\ IF lookup_due(counter) /\ ~skip
              THEN /\ worker' = [worker EXCEPT
                        !.phase = "hashes", !.fee_estimates = fee_estimates]
                   /\ panels' = [pn1 EXCEPT
                        !.recent.cached_height = Some(blocks)]
                   /\ log' = Issued(Counted(Shown(log, {"storage"})),
                                    {"hashes"})
              ELSE /\ worker' = NoWorker
                   /\ panels' = update_network_mempool(pn1, worker,
                                                       fee_estimates)
                   /\ log' = Finish(Counted(Shown(log, {"storage"} \cup
                                        shown_network_mempool(worker))))
    /\ UNCHANGED <<ctl, histVars, storeVars, cfgVars, trackerVars, mounted, active, node_was_responsive,
                   last_peer_count, alerts>>

\* RecentBlocksPanel.update_data from the block hashes to the next await or
\* the return; `found` are the heights whose getblockhash answered
HashesDone(found) ==
    /\ worker.phase = "hashes"
    /\ LET heights == recent_heights(Val(worker.blockchain_info).blocks)
           valid_hashes == Answered(heights, found)
       IN  IF valid_hashes # <<>>
           THEN /\ worker' = [worker EXCEPT
                     !.phase = "blocks", !.valid_hashes = valid_hashes]
                /\ log' = Issued(log, {"blocks"})
                /\ UNCHANGED panels
           ELSE /\ worker' = NoWorker
                /\ panels' = update_network_mempool(
                                [panels EXCEPT !.recent.blocks = <<>>],
                                worker, worker.fee_estimates)
                /\ log' = Finish(Shown(log, {"recent"} \cup
                                     shown_network_mempool(worker)))
    /\ UNCHANGED <<ctl, histVars, storeVars, cfgVars, trackerVars, mounted, active, node_was_responsive,
                   last_peer_count, block_refresh_counter, alerts>>

\* RecentBlocksPanel.update_data from the block details to the return, and
\* refresh_data to its end; `found` are the heights whose getblock answered
BlocksDone(found) ==
    /\ worker.phase = "blocks"
    /\ LET new_blocks ==
               [i \in 1..Len(Answered(worker.valid_hashes, found)) |->
                   [height |-> Answered(worker.valid_hashes, found)[i],
                    hash |-> Answered(worker.valid_hashes, found)[i]]]
       IN  panels' = update_network_mempool(
                        [panels EXCEPT !.recent.blocks = new_blocks],
                        worker, worker.fee_estimates)
    /\ worker' = NoWorker
    /\ log' = Finish(Shown(log, {"recent"} \cup shown_network_mempool(worker)))
    /\ UNCHANGED <<ctl, histVars, storeVars, cfgVars, trackerVars, mounted, active, node_was_responsive,
                   last_peer_count, block_refresh_counter, alerts>>

(***************************************************************************)
(* Strings.  A string is a sequence of characters; a run of letters that   *)
(* no operation looks into ("prune", "Added by NodePulse") is written as   *)
(* one element.  A dict is the sequence of its (key, value) pairs in       *)
(* insertion order.                                                        *)
(***************************************************************************)
\* the characters of Unicode category Nd: the ASCII digits and, of the others,
\* ARABIC-INDIC DIGIT FIVE
Decimals == {"0", "1", "2", "3", "4", "5", "6", "7", "8", "9", "U+0665"}

\* characters for which isdigit() is true and int() raises ValueError
DigitsOnly == {"^2"}

IsSpace(c) == c \in {" ", "\t", "\n", "\r"}

RECURSIVE lstrip(_)
lstrip(s) == IF s # <<>> /\ IsSpace(s[1]) THEN lstrip(Tail(s)) ELSE s

RECURSIVE rstrip(_)
rstrip(s) ==
    IF s # <<>> /\ IsSpace(Last(s)) THEN rstrip(SubSeq(s, 1, Len(s) - 1))
    ELSE s

\* str.strip()
strip(s) == rstrip(lstrip(s))

\* c in s
Contains(s, c) == \E i \in DOMAIN s : s[i] = c

First(s, c) == CHOOSE i \in DOMAIN s : s[i] = c /\ \A j \in 1..(i - 1) : s[j] # c

\* s.split(c, 1), for s containing c
split1(s, c) == <<SubSeq(s, 1, First(s, c) - 1),
                  SubSeq(s, First(s, c) + 1, Len(s))>>

\* open(path, 'r'): text mode translates the line ends \r\n and \r to \n
RECURSIVE universal_newlines(_)
universal_newlines(text) ==
    IF text = <<>> THEN <<>>
    ELSE IF text[1] = "\r"
         THEN IF Len(text) >= 2 /\ text[2] = "\n"
              THEN <<"\n">> \o universal_newlines(SubSeq(text, 3, Len(text)))
              ELSE <<"\n">> \o universal_newlines(Tail(text))
         ELSE <<text[1]>> \o universal_newlines(Tail(text))

\* the lines of a text, each with its line end
RECURSIVE splitlines(_)
splitlines(text) ==
    IF text = <<>> THEN <<>>
    ELSE IF Contains(text, "\n")
         THEN <<SubSeq(text, 1, First(text, "\n"))>>
              \o splitlines(SubSeq(text, First(text, "\n") + 1, Len(text)))
         ELSE <<text>>

\* f.readlines(), and `for line in f`, on a file opened in text mode
readlines(text) == splitlines(universal_newlines(text))

\* f.writelines(lines): the strings one after the other
RECURSIVE writelines(_)
writelines(lines) ==
    IF lines = <<>> THEN <<>> ELSE lines[1] \o writelines(Tail(lines))

\* the characters of s as one TLA+ string
RECURSIVE Text(_)
Text(s) == IF s = <<>> THEN "" ELSE s[1] \o Text(Tail(s))

\* str.isdigit()
isdigit(s) == s # <<>> /\ \A i \in DOMAIN s : s[i] \in Decimals \cup DigitsOnly

DigitValue(c) ==
    CASE c = "0" -> 0 [] c = "1" -> 1 [] c = "2" -> 2 [] c = "3" -> 3
      [] c = "4" -> 4 [] c = "5" -> 5 [] c = "6" -> 6 [] c = "7" -> 7
      [] c = "8" -> 8 [] c = "9" -> 9 [] c = "U+0665" -> 5

\* int(s) for a string of decimal digits
RECURSIVE int(_)
int(s) == IF s = <<>> THEN 0
          ELSE 10 * int(SubSeq(s, 1, Len(s) - 1)) + DigitValue(Last(s))

\* int(s) raises ValueError
int_raises(s) == s = <<>> \/ \E i \in DOMAIN s : s[i] \notin Decimals

dict_has(d, k) == \E i \in DOMAIN d : d[i][1] = k

dict_get(d, k) == d[CHOOSE i \in DOMAIN d : d[i][1] = k][2]

\* d[k] = v
dict_set(d, k, v) ==
    IF dict_has(d, k)
    THEN [i \in DOMAIN d |-> IF d[i][1] = k THEN <<k, v>> ELSE d[i]]
    ELSE Append(d, <<k, v>>)

\* {**d, **e}
RECURSIVE dict_merge(_, _)
dict_merge(d, e) ==
    IF e = <<>> THEN d
    ELSE dict_merge(dict_set(d, e[1][1], e[1][2]), Tail(e))

(***************************************************************************)
(* BitcoinConfigManager                                                    *)
(***************************************************************************)
\* in range: v.isdigit() and lo <= int(v) <= hi, False when int() raises
digits_between(v, lo, hi) ==
    isdigit(v) /\ ~int_raises(v) /\ lo <= int(v) /\ int(v) <= hi

\* validate_setting with the pruning floor exclusive
validate_setting_above(key, value) ==
    LET ok == CASE key = <<"prune">> ->
                       value = <<"0">>
                       \/ (isdigit(value) /\ ~int_raises(value)
                           /\ int(value) > 550)
                 [] key = <<"maxconnections">> -> digits_between(value, 8, 125)
                 [] key = <<"dbcache">> -> digits_between(value, 4, 16384)
                 [] key = <<"rpcport">> -> digits_between(value, 1024, 65535)
                 [] OTHER -> TRUE
    IN  IF ok THEN [valid |-> TRUE, msg |-> "Valid"]
        ELSE [valid |-> FALSE, msg |-> "Invalid value for " \o Text(key)]

\* BitcoinConfigManager.validate_setting
validate_setting(key, value) ==
    LET ok == CASE key = <<"prune">> ->
                       value = <<"0">>
                       \/ (isdigit(value) /\ ~int_raises(value)
                           /\ int(value) >= 550)
                 [] key = <<"maxconnections">> -> digits_between(value, 8, 125)
                 [] key = <<"dbcache">> -> digits_between(value, 4, 16384)
                 [] key = <<"rpcport">> -> digits_between(value, 1024, 65535)
                 [] OTHER -> TRUE
    IN  IF ok THEN [valid |-> TRUE, msg |-> "Valid"]
        ELSE [valid |-> FALSE, msg |-> "Invalid value for " \o Text(key)]

\* a call of validate_setting
Validate(key, value) ==
    /\ checked' = Some([key |-> key, value |-> value,
                        result |-> validate_setting(key, value)])
    /\ UNCHANGED <<ctl, histVars, trackerVars, appVars, cfgVars, wc>>

\* the loop of read_config in which the first line of a key wins
RECURSIVE parse_lines_first(_, _)
parse_lines_first(lines, settings) ==
    IF lines = <<>> THEN settings
    ELSE LET line == strip(lines[1])
         IN  IF line = <<>> \/ line[1] = "#" \/ ~Contains(line, "=")
                \/ dict_has(settings, strip(split1(line, "=")[1]))
             THEN parse_lines_first(Tail(lines), settings)
             ELSE parse_lines_first(Tail(lines),
                              dict_set(settings, strip(split1(line, "=")[1]),
                                       strip(split1(line, "=")[2])))

\* BitcoinConfigManager.read_config; `err` is None, or Some(n) when reading
\* raises after n lines
RECURSIVE parse_lines(_, _)
parse_lines(lines, settings) ==
    IF lines = <<>> THEN settings
    ELSE LET line == strip(lines[1])
         IN  IF line = <<>> \/ line[1] = "#" \/ ~Contains(line, "=")
             THEN parse_lines(Tail(lines), settings)
             ELSE parse_lines(Tail(lines),
                              dict_set(settings, strip(split1(line, "=")[1]),
                                       strip(split1(line, "=")[2])))

read_config(f, err) ==
    IF ~f.exists THEN <<>>
    ELSE IF err = None THEN parse_lines(readlines(f.text), <<>>)
    ELSE parse_lines(SubSeq(readlines(f.text), 1, Val(err)), <<>>)

\* BitcoinConfigManager.backup_config: bitcoin.conf.backup.<timestamp>, the
\* timestamp to the second; a failed copy is ignored
backup_config(f, now, copy_ok) ==
    IF ~f.exists \/ ~copy_ok THEN f
    ELSE [f EXCEPT !.backups = (now :> f.text) @@ f.backups]

\* the loop over the file's lines with the key compared as split, blanks
\* and all
RECURSIVE rewrite_lines_unstripped(_, _)
rewrite_lines_unstripped(lines, settings) ==
    IF lines = <<>> THEN <<>>
    ELSE LET line == lines[1]
             stripped == strip(line)
             key == split1(stripped, "=")[1]
         IN  (IF stripped = <<>> \/ stripped[1] = "#" THEN <<line>>
              ELSE IF Contains(stripped, "=")
                   THEN IF dict_has(settings, key)
                        THEN <<key \o <<"=">> \o dict_get(settings, key)
                                   \o <<"\n">> >>
                        ELSE <<line>>
              ELSE <<line>>)
             \o rewrite_lines_unstripped(Tail(lines), settings)

\* write_config, the loop over the file's lines
RECURSIVE rewrite_lines(_, _)
rewrite_lines(lines, settings) ==
    IF lines = <<>> THEN <<>>
    ELSE LET line == lines[1]
             stripped == strip(line)
             key == strip(split1(stripped, "=")[1])
         IN  (IF stripped = <<>> \/ stripped[1] = "#" THEN <<line>>
              ELSE IF Contains(stripped, "=")
                   THEN IF dict_has(settings, key)
                        THEN <<key \o <<"=">> \o dict_get(settings, key)
                                   \o <<"\n">> >>
                        ELSE <<line>>
              ELSE <<line>>)
             \o rewrite_lines(Tail(lines), settings)

\* updated_keys without `updated_keys.add(key)`
updated_keys_none(lines, settings) == {}

\* write_config, updated_keys: the keys of the file's key=value lines that
\* are settings
updated_keys(lines, settings) ==
    {k \in {settings[i][1] : i \in DOMAIN settings} :
        \E j \in DOMAIN lines :
            LET stripped == strip(lines[j])
            IN  /\ stripped # <<>>
                /\ stripped[1] # "#"
                /\ Contains(stripped, "=")
                /\ strip(split1(stripped, "=")[1]) = k}

\* write_config, the loop over the settings not in the file
RECURSIVE added_lines(_, _)
added_lines(settings, updated) ==
    IF settings = <<>> THEN <<>>
    ELSE (IF settings[1][1] \in updated THEN <<>>
          ELSE << <<"\n", "#", " ", "Added by NodePulse", "\n">>
                  \o settings[1][1] \o <<"=">> \o settings[1][2]
                  \o <<"\n">> >>)
         \o added_lines(Tail(settings), updated)

\* BitcoinConfigManager.write_config: the files afterwards and the result.
\* `io` is the outcome of the file operations: "ok", "backup_fails" (the
\* copy raises), "read_fails" (reading the file raises), "open_fails"
\* (opening it for writing raises), "write_fails" (writing raises after the
\* file is truncated).
write_config(f, now, settings, io) ==
    IF ~f.exists
    THEN [fs |-> f, success |-> FALSE, message |-> "Config file not found"]
    ELSE LET b == backup_config(f, now, io # "backup_fails")
             lines == readlines(f.text)
             new_lines == rewrite_lines(lines, settings)
                          \o added_lines(settings,
                                         updated_keys(lines, settings))
             failed == "Error writing config: I/O error"
         IN  IF io \in {"read_fails", "open_fails"}
             THEN [fs |-> b, success |-> FALSE, message |-> failed]
             ELSE IF io = "write_fails"
             THEN [fs |-> [b EXCEPT !.text = <<>>], success |-> FALSE,
                   message |-> failed]
             ELSE [fs |-> [b EXCEPT !.text = writelines(new_lines)],
                   success |-> TRUE,
                   message |-> "Configuration saved successfully"]

(***************************************************************************)
(* write_config, one file operation at a time                              *)
(***************************************************************************)
\* no write_config has been called; `backup` is the outcome of the copy and
\* `failed` the file operation that raised into the except clause
NotWriting ==
    [pc |-> "idle", settings |-> <<>>, pre |-> <<>>, new_lines |-> <<>>,
     backup |-> "none", failed |-> "none", result |-> "none", writes |-> 0,
     read |-> None, read_err |-> None, prev |-> None]

\* the (success, message) pair of a result
returned(result) ==
    CASE result = "ok" -> <<TRUE, "Configuration saved successfully">>
      [] result = "not_found" -> <<FALSE, "Config file not found">>
      [] result = "error" -> <<FALSE, "Error writing config: I/O error">>

\* write_config is called: `if not self.config_path.exists(): return`.
\* Path.exists() returns False when the file is missing and raises the
\* OSError of stat() when it is any other (`stat` = "raises"); the call is
\* outside the try block.
wc_call(settings, stat) ==
    /\ wc.pc \in {"idle", "done"}
    /\ wc' = [NotWriting EXCEPT
                !.settings = settings, !.pre = fs.text,
                !.writes = wc.writes + 1,
                !.prev = IF wc.result = "ok"
                         THEN Some([settings |-> wc.settings, pre |-> wc.pre])
                         ELSE None,
                !.pc = IF stat = "raises" \/ ~fs.exists THEN "done"
                       ELSE "backup",
                !.result = IF stat = "raises" THEN "raised"
                           ELSE IF ~fs.exists THEN "not_found" ELSE "none"]
    /\ UNCHANGED <<ctl, histVars, trackerVars, appVars, cfgVars, checked>>

\* backup_config without its try/except: a failed copy raises into
\* write_config's except clause
wc_backup_raising(copy_ok) ==
    /\ wc.pc = "backup"
    /\ fs' = backup_config(fs, clock, copy_ok)
    /\ wc' = IF copy_ok
             THEN [wc EXCEPT !.pc = "read", !.backup = "copied"]
             ELSE [wc EXCEPT !.pc = "done", !.backup = "failed",
                             !.result = "error"]
    /\ UNCHANGED <<ctl, histVars, trackerVars, appVars, current_settings, pending_changes,
                   settings_loaded, applying, commands, applied, checked>>

\* self.backup_config()
wc_backup(copy_ok) ==
    /\ wc.pc = "backup"
    /\ fs' = backup_config(fs, clock, copy_ok)
    /\ wc' = [wc EXCEPT !.pc = "read",
                        !.backup = IF copy_ok THEN "copied" ELSE "failed"]
    /\ UNCHANGED <<ctl, histVars, trackerVars, appVars, current_settings, pending_changes,
                   settings_loaded, applying, commands, applied, checked>>

\* the file is read and new_lines built
wc_read(ok) ==
    /\ wc.pc = "read"
    /\ wc' = IF ok
             THEN [wc EXCEPT
                     !.pc = "open",
                     !.new_lines =
                        rewrite_lines(readlines(fs.text), wc.settings)
                        \o added_lines(wc.settings,
                             updated_keys(readlines(fs.text), wc.settings))]
             ELSE [wc EXCEPT !.pc = "done", !.result = "error",
                             !.failed = "read"]
    /\ UNCHANGED <<ctl, histVars, trackerVars, appVars, cfgVars, checked>>

\* open(self.config_path, 'w') truncates the file
wc_open(ok) ==
    /\ wc.pc = "open"
    /\ IF ok
       THEN /\ fs' = [fs EXCEPT !.text = <<>>]
            /\ wc' = [wc EXCEPT !.pc = "write"]
       ELSE /\ wc' = [wc EXCEPT !.pc = "done", !.result = "error",
                               !.failed = "open"]
            /\ UNCHANGED fs
    /\ UNCHANGED <<ctl, histVars, trackerVars, appVars, current_settings, pending_changes,
                   settings_loaded, applying, commands, applied, checked>>

\* f.writelines(new_lines) and the close; on an error the first `kept` lines
\* have reached the file
wc_write(ok, kept) ==
    /\ wc.pc = "write"
    /\ kept <= Len(wc.new_lines)
    /\ IF ok
       THEN /\ fs' = [fs EXCEPT !.text = writelines(wc.new_lines)]
            /\ wc' = [wc EXCEPT !.pc = "done", !.result = "ok"]
       ELSE /\ fs' = [fs EXCEPT !.text =
                        writelines(SubSeq(wc.new_lines, 1, kept))]
            /\ wc' = [wc EXCEPT !.pc = "done", !.result = "error",
                               !.failed = "write"]
    /\ UNCHANGED <<ctl, histVars, trackerVars, appVars, current_settings, pending_changes,
                   settings_loaded, applying, commands, applied, checked>>

\* read_config(), before write_config is called or after it has returned;
\* `err` is None, or Some(n) when reading raises after n lines were read
ReadConfig(err) ==
    /\ wc.pc \in {"idle", "done"}
    /\ wc.read = None
    /\ err # None => fs.exists /\ Val(err) < Len(readlines(fs.text))
    /\ wc' = [wc EXCEPT !.read = Some(read_config(fs, err)),
                        !.read_err = err]
    /\ UNCHANGED <<ctl, histVars, trackerVars, appVars, cfgVars, checked>>

(***************************************************************************)
(* SettingsPanel                                                           *)
(***************************************************************************)
NotApplying == [phase |-> "none"]

\* `if self.alerts_panel: self.alerts_panel.add_alert(...)`: the panel's
\* reference is set by NodePulseApp.on_mount, which runs before any click
\* is dispatched
panel_alert(al, now, message, level) ==
    IF mounted THEN add_alert(al, now, message, level) ELSE al

\* the entries panel_alert appends
panel_added(now, message, level) ==
    IF mounted THEN Stamped(now, <<Alert(message, level)>>) ELSE <<>>

\* load_config without `self.pending_changes = {}`
load_config_keeping(f, err) ==
    [current_settings |-> read_config(f, err),
     pending_changes |-> pending_changes]

\* SettingsPanel.load_config
load_config(f, err) ==
    [current_settings |-> read_config(f, err), pending_changes |-> <<>>]

\* the validation loop that looks at the first entry only
first_invalid_head(pending) ==
    IF pending # <<>> /\ ~validate_setting(pending[1][1], pending[1][2]).valid
    THEN Some(validate_setting(pending[1][1], pending[1][2]).msg)
    ELSE None

\* apply_changes, `for key, value in self.pending_changes.items(): ...`:
\* the message of the first entry that fails validation, None if none does
RECURSIVE first_invalid(_)
first_invalid(pending) ==
    IF pending = <<>> THEN None
    ELSE IF ~validate_setting(pending[1][1], pending[1][2]).valid
         THEN Some(validate_setting(pending[1][1], pending[1][2]).msg)
         ELSE first_invalid(Tail(pending))

\* the running apply_changes entry of the history, changed; its `stop` is
\* the result of the stop command and `slept` the seconds of the delay
Noted(messages, cmds, end) ==
    [applied EXCEPT
        ![Len(applied)].alerts = @ \o messages,
        ![Len(applied)].commands = @ \o cmds,
        ![Len(applied)].end = end]

\* SettingsPanel.on_mount
SettingsPanel_on_mount(err) ==
    /\ ~settings_loaded
    /\ settings_loaded' = TRUE
    /\ current_settings' = load_config(fs, err).current_settings
    /\ pending_changes' = load_config(fs, err).pending_changes
    /\ UNCHANGED <<ctl, histVars, storeVars, trackerVars, appVars, fs, applying, commands, applied>>

\* a modal ConfirmDialog is on screen
DialogUp == applying.phase \in {"confirm", "ask_restart", "confirm_reset"}

\* SettingsPanel.on_click on an option label: prune-<v>, maxconn-<v>,
\* dbcache-<v>, rpc-enable, rpc-disable
on_click_option(key, value) ==
    /\ mounted /\ settings_loaded /\ ~DialogUp
    /\ pending_changes' = dict_set(pending_changes, key, value)
    /\ UNCHANGED <<ctl, histVars, storeVars, trackerVars, appVars, fs, current_settings,
                   settings_loaded, applying, commands, applied>>

\* SettingsPanel.on_click on action-reload
on_click_reload(err) ==
    /\ mounted /\ settings_loaded /\ ~DialogUp
    /\ current_settings' = load_config(fs, err).current_settings
    /\ pending_changes' = load_config(fs, err).pending_changes
    /\ alerts' = panel_alert(alerts, clock, "Configuration reloaded", "info")
    /\ added' = added \o panel_added(clock, "Configuration reloaded", "info")
    /\ UNCHANGED <<ctl, requests, storeVars, trackerVars, mounted, active, worker,
                   node_was_responsive, last_peer_count,
                   block_refresh_counter, panels, log, fs, settings_loaded,
                   applying, commands, applied>>

\* SettingsPanel.on_click on action-apply, and apply_changes up to the
\* confirmation dialog; one apply_changes worker runs at a time.  The
\* alert texts are the source's without their trailing symbol.
on_click_apply ==
    /\ mounted /\ settings_loaded /\ applying.phase = "none"
    /\ IF pending_changes = <<>>
       THEN /\ alerts' = panel_alert(alerts, clock, "No changes to apply",
                                     "warning")
            /\ added' = added \o panel_added(clock, "No changes to apply",
                                             "warning")
            /\ applied' = Append(applied,
                   [op |-> "apply", confirmed |-> FALSE, pending |-> <<>>,
                    fs_before |-> fs,
                    fs_after |-> fs, alerts |-> <<"No changes to apply">>,
                    commands |-> <<>>, stop |-> None, slept |-> None,
                    end |-> "done"])
            /\ UNCHANGED applying
       ELSE /\ applying' = [phase |-> "confirm"]
            /\ UNCHANGED <<alerts, added, applied>>
    /\ UNCHANGED <<ctl, requests, storeVars, trackerVars, mounted, active, worker, node_was_responsive,
                   last_peer_count, block_refresh_counter, panels, log, fs,
                   current_settings, pending_changes, settings_loaded,
                   commands>>

\* apply_changes from the dialog's answer to the next await or the return:
\* validation, the merge, write_config, the question whether to restart
apply_confirmed(confirmed, io, is_running, err, dt) ==
    /\ applying.phase = "confirm"
    /\ clock' = clock + dt
    /\ LET now == clock + dt
           entry == [op |-> "apply", confirmed |-> confirmed,
                     pending |-> pending_changes,
                     fs_before |-> fs, fs_after |-> fs, alerts |-> <<>>,
                     commands |-> <<>>, stop |-> None, slept |-> None,
                     end |-> "done"]
           bad == first_invalid(pending_changes)
           new_settings == dict_merge(current_settings, pending_changes)
           w == write_config(fs, now, new_settings, io)
       IN  IF ~confirmed
           THEN /\ applied' = Append(applied, entry)
                /\ applying' = NotApplying
                /\ UNCHANGED <<alerts, added, fs, current_settings,
                               pending_changes>>
           ELSE IF bad # None
           THEN /\ alerts' = panel_alert(alerts, now,
                                "Validation failed: " \o Val(bad), "error")
                /\ added' = added \o panel_added(now,
                                "Validation failed: " \o Val(bad), "error")
                /\ applied' = Append(applied, [entry EXCEPT !.alerts =
                                <<"Validation failed: " \o Val(bad)>>])
                /\ applying' = NotApplying
                /\ UNCHANGED <<fs, current_settings, pending_changes>>
           ELSE IF ~w.success
           THEN /\ fs' = w.fs
                /\ alerts' = panel_alert(alerts, now,
                                "Failed: " \o w.message, "error")
                /\ added' = added \o panel_added(now,
                                "Failed: " \o w.message, "error")
                /\ applied' = Append(applied, [entry EXCEPT
                                !.fs_after = w.fs,
                                !.alerts = <<"Failed: " \o w.message>>])
                /\ applying' = NotApplying
                /\ UNCHANGED <<current_settings, pending_changes>>
           ELSE /\ fs' = w.fs
                /\ alerts' = panel_alert(alerts, now,
                                "Configuration saved", "success")
                /\ added' = added \o panel_added(now,
                                "Configuration saved", "success")
                /\ IF is_running
                   THEN /\ applying' = [phase |-> "ask_restart"]
                        /\ applied' = Append(applied, [entry EXCEPT
                                !.fs_after = w.fs,
                                !.alerts = <<"Configuration saved">>,
                                !.end = "running"])
                        /\ UNCHANGED <<current_settings, pending_changes>>
                   ELSE /\ applying' = NotApplying
                        /\ applied' = Append(applied, [entry EXCEPT
                                !.fs_after = w.fs,
                                !.alerts = <<"Configuration saved">>])
                        /\ current_settings' =
                                load_config(w.fs, err).current_settings
                        /\ pending_changes' =
                                load_config(w.fs, err).pending_changes
    /\ UNCHANGED <<ctl, requests, storeVars, tracker, calls, query, mounted,
                   active, worker, node_was_responsive, last_peer_count,
                   block_refresh_counter, panels, log, settings_loaded,
                   commands>>

\* apply_changes from the restart dialog's answer: the stop command is
\* issued, or the config is reloaded
apply_restart_answered(restart, err) ==
    /\ applying.phase = "ask_restart"
    /\ IF restart
       THEN /\ alerts' = panel_alert(alerts, clock, "Restarting node...",
                                     "info")
            /\ added' = added \o panel_added(clock, "Restarting node...",
                                             "info")
            /\ commands' = Append(commands, "stop")
            /\ applied' = Noted(<<"Restarting node...">>, <<"stop">>,
                                "running")
            /\ applying' = [phase |-> "stopping"]
            /\ UNCHANGED <<current_settings, pending_changes>>
       ELSE /\ current_settings' = load_config(fs, err).current_settings
            /\ pending_changes' = load_config(fs, err).pending_changes
            /\ applied' = Noted(<<>>, <<>>, "done")
            /\ applying' = NotApplying
            /\ UNCHANGED <<alerts, added, commands>>
    /\ UNCHANGED <<ctl, requests, storeVars, trackerVars, mounted, active, worker, node_was_responsive,
                   last_peer_count, block_refresh_counter, panels, log, fs,
                   settings_loaded>>

\* apply_changes from stop_node's result: the 3 second sleep after a
\* successful stop, the start command otherwise
apply_stop_done(success) ==
    /\ applying.phase = "stopping"
    /\ IF success
       THEN /\ applying' = [phase |-> "sleeping"]
            /\ applied' = [applied EXCEPT ![Len(applied)].stop = Some(TRUE)]
            /\ UNCHANGED commands
       ELSE /\ applying' = [phase |-> "starting"]
            /\ commands' = Append(commands, "start")
            /\ applied' = [Noted(<<>>, <<"start">>, "running") EXCEPT
                              ![Len(applied)].stop = Some(FALSE)]
    /\ UNCHANGED <<ctl, histVars, storeVars, trackerVars, appVars, fs, current_settings,
                   pending_changes, settings_loaded>>

\* apply_changes after `await self.app.sleep(3)`: the start command
apply_sleep_done(dt) ==
    /\ applying.phase = "sleeping"
    /\ clock' = clock + dt
    /\ applying' = [phase |-> "starting"]
    /\ commands' = Append(commands, "start")
    /\ applied' = [Noted(<<>>, <<"start">>, "running") EXCEPT
                      ![Len(applied)].slept = Some(dt)]
    /\ UNCHANGED <<ctl, histVars, storeVars, tracker, calls, query, appVars, fs, current_settings,
                   pending_changes, settings_loaded>>

\* apply_changes from start_node's result to the return
apply_start_done(success, err) ==
    /\ applying.phase = "starting"
    /\ LET m == IF success THEN "Node restarted" ELSE "Failed to start: error"
       IN  /\ alerts' = panel_alert(alerts, clock, m,
                                    IF success THEN "success" ELSE "error")
           /\ added' = added \o panel_added(clock, m,
                                    IF success THEN "success" ELSE "error")
           /\ applied' = Noted(<<m>>, <<>>, "done")
    /\ current_settings' = load_config(fs, err).current_settings
    /\ pending_changes' = load_config(fs, err).pending_changes
    /\ applying' = NotApplying
    /\ UNCHANGED <<ctl, requests, storeVars, trackerVars, mounted, active, worker,
                   node_was_responsive, last_peer_count,
                   block_refresh_counter, panels, log, fs, settings_loaded,
                   commands>>

\* BitcoinConfigManager.get_default_settings
get_default_settings ==
    << << <<"prune">>, <<"0">> >>,
       << <<"maxconnections">>, <<"1", "2", "5">> >>,
       << <<"dbcache">>, <<"4", "5", "0">> >>,
       << <<"server">>, <<"0">> >>,
       << <<"rpcport">>, <<"8", "3", "3", "2">> >> >>

\* SettingsPanel.on_click on action-reset, and reset_to_defaults up to the
\* confirmation dialog
on_click_reset ==
    /\ mounted /\ settings_loaded /\ applying.phase = "none"
    /\ applying' = [phase |-> "confirm_reset"]
    /\ UNCHANGED <<ctl, histVars, storeVars, trackerVars, appVars, fs,
                   current_settings, pending_changes, settings_loaded,
                   commands, applied>>

\* reset_to_defaults from the dialog's answer to its return
reset_confirmed(confirmed, io, err, dt) ==
    /\ applying.phase = "confirm_reset"
    /\ clock' = clock + dt
    /\ applying' = NotApplying
    /\ LET now == clock + dt
           entry == [op |-> "reset", confirmed |-> confirmed,
                     pending |-> <<>>,
                     fs_before |-> fs, fs_after |-> fs, alerts |-> <<>>,
                     commands |-> <<>>, stop |-> None, slept |-> None,
                     end |-> "done"]
           defaults == get_default_settings
           w == write_config(fs, now, defaults, io)
       IN  IF ~confirmed
           THEN /\ applied' = Append(applied, entry)
                /\ UNCHANGED <<alerts, added, fs, current_settings,
                               pending_changes>>
           ELSE IF w.success
           THEN /\ fs' = w.fs
                /\ alerts' = panel_alert(alerts, now,
                                "Reset to defaults", "success")
                /\ added' = added \o panel_added(now,
                                "Reset to defaults", "success")
                /\ applied' = Append(applied, [entry EXCEPT
                                !.fs_after = w.fs,
                                !.alerts = <<"Reset to defaults">>])
                /\ current_settings' =
                        load_config(w.fs, err).current_settings
                /\ pending_changes' =
                        load_config(w.fs, err).pending_changes
           ELSE /\ fs' = w.fs
                /\ alerts' = panel_alert(alerts, now,
                                "Failed: " \o w.message, "error")
                /\ added' = added \o panel_added(now,
                                "Failed: " \o w.message, "error")
                /\ applied' = Append(applied, [entry EXCEPT
                                !.fs_after = w.fs,
                                !.alerts = <<"Failed: " \o w.message>>])
                /\ UNCHANGED <<current_settings, pending_changes>>
    /\ UNCHANGED <<ctl, requests, storeVars, tracker, calls, query, mounted,
                   active, worker, node_was_responsive, last_peer_count,
                   block_refresh_counter, panels, log, settings_loaded,
                   commands>>

\* another process rewrites the config file: read_config and write_config
\* open it by path each time they are called and hold no lock on it
external_edit(text) ==
    /\ fs.exists /\ fs.text # text
    /\ fs' = [fs EXCEPT !.text = text]
    /\ UNCHANGED <<ctl, histVars, storeVars, trackerVars, appVars,
                   current_settings, pending_changes, settings_loaded,
                   applying, commands, applied>>

(***************************************************************************)
(* ControlsPanel: the restart worker and the status timer                  *)
(***************************************************************************)
NoRestart ==
    [phase |-> "none", stopped |-> FALSE, started |-> FALSE,
     alerts |-> <<>>, was |-> "none", ticks |-> 0]

\* the restart_node worker is suspended at one of its awaits
Restarting ==
    ctl.phase \in {"confirm", "stopping", "sleeping", "starting", "status"}

\* ControlsPanel.on_click on action-restart: run_worker(self.restart_node()),
\* not exclusive, in the panel's default group; restart_node up to the
\* confirmation dialog
on_click_restart ==
    /\ mounted /\ ctl.phase = "none"
    /\ ctl' = [ctl EXCEPT !.phase = "confirm"]
    /\ UNCHANGED <<histVars, storeVars, trackerVars, appVars, cfgVars>>

\* restart_node from the dialog's answer to the next await or the return
restart_confirmed(confirmed, is_running) ==
    /\ ctl.phase = "confirm"
    /\ IF ~confirmed
       THEN /\ ctl' = [ctl EXCEPT !.phase = "done"]
            /\ UNCHANGED <<alerts, added, commands>>
       ELSE /\ alerts' = add_alert(alerts, clock, "Restarting node...", "info")
            /\ added' = added \o
                    Stamped(clock, <<Alert("Restarting node...", "info")>>)
            /\ commands' = Append(commands,
                                  IF is_running THEN "stop" ELSE "start")
            /\ ctl' = [ctl EXCEPT
                         !.phase = IF is_running THEN "stopping"
                                   ELSE "starting",
                         !.started = ~is_running,
                         !.alerts = @ \o <<"Restarting node...">>]
    /\ UNCHANGED <<requests, storeVars, trackerVars, mounted, active, worker,
                   node_was_responsive, last_peer_count,
                   block_refresh_counter, panels, log, fs, current_settings,
                   pending_changes, settings_loaded, applying, applied>>

\* restart_node from stop_node's result: the alert and the 3 second sleep
\* after a successful stop, the start command otherwise
restart_stop_done(success) ==
    /\ ctl.phase = "stopping"
    /\ IF success
       THEN /\ alerts' = add_alert(alerts, clock,
                                   "Node stopped, waiting 3s...", "info")
            /\ added' = added \o
                    Stamped(clock,
                            <<Alert("Node stopped, waiting 3s...", "info")>>)
            /\ ctl' = [ctl EXCEPT
                         !.phase = "sleeping", !.stopped = TRUE,
                         !.alerts = @ \o <<"Node stopped, waiting 3s...">>]
            /\ UNCHANGED commands
       ELSE /\ commands' = Append(commands, "start")
            /\ ctl' = [ctl EXCEPT !.phase = "starting", !.started = TRUE]
            /\ UNCHANGED <<alerts, added>>
    /\ UNCHANGED <<requests, storeVars, trackerVars, mounted, active, worker,
                   node_was_responsive, last_peer_count,
                   block_refresh_counter, panels, log, fs, current_settings,
                   pending_changes, settings_loaded, applying, applied>>

\* restart_node after the sleep: the start command is issued
restart_sleep_done ==
    /\ ctl.phase = "sleeping"
    /\ commands' = Append(commands, "start")
    /\ ctl' = [ctl EXCEPT !.phase = "starting", !.started = TRUE]
    /\ UNCHANGED <<histVars, storeVars, trackerVars, appVars, fs,
                   current_settings, pending_changes, settings_loaded,
                   applying, applied>>

\* restart_node from start_node's result to `await self.update_status()`
restart_start_done(success) ==
    /\ ctl.phase = "starting"
    /\ LET m == IF success THEN "Node restarted successfully"
                ELSE "Failed to restart: error"
           level == IF success THEN "success" ELSE "error"
       IN  /\ alerts' = add_alert(alerts, clock, m, level)
           /\ added' = added \o Stamped(clock, <<Alert(m, level)>>)
           /\ ctl' = [ctl EXCEPT !.phase = "status", !.alerts = @ \o <<m>>]
    /\ UNCHANGED <<requests, storeVars, trackerVars, mounted, active, worker,
                   node_was_responsive, last_peer_count,
                   block_refresh_counter, panels, log, cfgVars>>

\* the update_status() awaited at the end of restart_node returns
restart_status_done ==
    /\ ctl.phase = "status"
    /\ ctl' = [ctl EXCEPT !.phase = "done"]
    /\ UNCHANGED <<histVars, storeVars, trackerVars, appVars, cfgVars>>

\* the panel's 5 second timer: run_worker(self.update_status(),
\* exclusive=True) cancels the workers of the panel's default group, the
\* restart_node worker among them, and starts the status worker
status_tick ==
    /\ mounted /\ ctl.ticks < MaxStatusTicks
    /\ ctl' = [ctl EXCEPT
                 !.ticks = @ + 1,
                 !.phase = IF Restarting THEN "cancelled" ELSE @,
                 !.was = IF Restarting THEN ctl.phase ELSE @]
    /\ UNCHANGED <<histVars, storeVars, trackerVars, appVars, cfgVars>>

\* the config file before the program runs: absent, or a comment, a
\* connection cap and an unrelated key
SampleText ==
    <<"#", " ", "node settings", "\n",
      "maxconnections", "=", "1", "2", "5", "\n",
      "txindex", "=", "1", "\n">>

NoFile == [exists |-> FALSE, text |-> <<>>, backups |-> <<>>]

InitialFiles ==
    {NoFile, [exists |-> TRUE, text |-> SampleText, backups |-> <<>>]}

\* the state after construction, apart from the files on disk
InitState ==
    /\ clock = 0
    /\ tracker = SyncStatsTracker_init
    /\ calls = <<>>
    /\ query = None
    /\ mounted = FALSE
    /\ active = "home"
    /\ worker = NoWorker
    /\ node_was_responsive = TRUE
    /\ last_peer_count = None
    /\ block_refresh_counter = None
    /\ alerts = <<>>
    /\ panels = NoPanels
    /\ log = <<>>
    /\ current_settings = <<>>
    /\ pending_changes = <<>>
    /\ settings_loaded = FALSE
    /\ applying = NotApplying
    /\ commands = <<>>
    /\ applied = <<>>
    /\ checked = None
    /\ wc = NotWriting
    /\ added = <<>>
    /\ requests = <<>>
    /\ ctl = NoRestart

Init == InitState /\ fs \in InitialFiles

\* get_blocks_per_hour and get_eta never read a sample's headers or
\* is_syncing fields, so the estimator's arithmetic is explored with those
\* two inputs fixed; the latch is explored with the clock step fixed.
NextTracker ==
    \/ /\ Len(calls) < MaxRateSamples
       /\ \E b \in Heights, dt \in 0..MaxDt : Update(b, MaxHeight, TRUE, dt)
    \/ \E b \in Heights, h \in Heights : Query(b, h)

SpecTracker == Init /\ [][NextTracker]_vars

NextLatch ==
    /\ Len(calls) < MaxSamples
    /\ \E b \in Heights, s \in BOOLEAN : Update(b, MaxHeight, s, 1)

\* More samples than the deque holds.  The k-th sample carries the height
\* k * k, which tells the samples apart and makes the rate differ from one
\* window to the next; the first samples arrive 0..MaxDt seconds apart, the
\* later ones one second apart.
NextRing ==
    \/ /\ Len(calls) < MaxRing
       /\ \E dt \in (IF Len(calls) < MaxSamples THEN 0..MaxDt ELSE {1}) :
             Update((Len(calls) + 1) * (Len(calls) + 1), MaxHeight, TRUE, dt)
    \/ Query(0, 0)

SpecRing == Init /\ [][NextRing]_vars

\* update() stamps each sample with datetime.now(), the naive local wall
\* clock: between two calls it may advance, read the same value, or have been
\* set back (a clock correction, the end of daylight saving time)
NextWallClock ==
    \/ /\ Len(calls) < MaxSamples
       /\ \E b \in Heights, dt \in -1..MaxDt : Update(b, MaxHeight, TRUE, dt)
    \/ Query(MaxHeight, MaxHeight)

SpecWallClock == Init /\ [][NextWallClock]_vars

SpecLatch == Init /\ [][NextLatch]_vars

(***************************************************************************)
(* The refresh orchestrator                                                *)
(***************************************************************************)
Syncing == Some([blocks |-> 1, headers |-> 2, initialblockdownload |-> TRUE])
Synced == Some([blocks |-> 2, headers |-> 2, initialblockdownload |-> FALSE])
Net(n) == Some([connections |-> n])
Ok == Some("ok")

\* the chain-state query fails or answers; the other queries answer
Next ==
    \/ OnMount(TRUE)
    \/ Len(log) < MaxCycles /\ TimerTick(TRUE)
    \/ Len(log) < MaxCycles /\ action_refresh(TRUE)
    \/ \E t \in {"home", "blockchain"} : action_switch_tab(t)
    \/ \E bi \in {None, Synced} :
          GatherDone(bi, Net(5), Ok, Ok, Some(7), 1)
    \/ FeesDone(Ok, Ok, Ok)
    \/ \E found \in {{}, Heights} : HashesDone(found)
    \/ \E found \in {{}, Heights} : BlocksDone(found)

Spec == Init /\ [][Next]_vars

\* the peer count alone varies: the chain-state query answers every time
\* and the dashboard tab stays active
NextPeers ==
    \/ OnMount(TRUE)
    \/ Len(log) < MaxPeerCycles /\ TimerTick(TRUE)
    \/ \E n \in {2, 4, 5} : GatherDone(Synced, Net(n), Ok, Ok, Some(7), 1)

SpecPeers == Init /\ [][NextPeers]_vars

\* the peer count varies and the chain-state query and the network query
\* may each fail; the dashboard tab stays active
NextPeersFailing ==
    \/ OnMount(TRUE)
    \/ Len(log) < MaxPeerCycles /\ TimerTick(TRUE)
    \/ \E bi \in {None, Synced}, ni \in {None, Net(2), Net(4)} :
          GatherDone(bi, ni, Ok, Ok, Some(7), 1)

SpecPeersFailing == Init /\ [][NextPeersFailing]_vars

\* the node is syncing or synced and the chain-state query may fail; the
\* dashboard tab stays active
NextSyncing ==
    \/ OnMount(TRUE)
    \/ Len(log) < MaxCycles /\ TimerTick(TRUE)
    \/ \E bi \in {None, Syncing, Synced} :
          GatherDone(bi, Net(5), Ok, Ok, Some(7), 1)

SpecSyncing == Init /\ [][NextSyncing]_vars

\* the controls panel beside the refresh key: every cycle is started by
\* hand, and the dashboard tab stays active
NextControls ==
    \/ OnMount(TRUE)
    \/ Len(requests) < MaxRequests /\ action_refresh(TRUE)
    \/ Len(requests) < MaxRequests /\ on_click_refresh
    \/ on_click_clear
    \/ \E bi \in {None, Synced} :
          GatherDone(bi, Net(5), Ok, Ok, Some(7), 1)

SpecControls == Init /\ [][NextControls]_vars

(***************************************************************************)
(* The settings panel                                                      *)
(***************************************************************************)
Str50 == <<"5", "0">>
Str200 == <<"2", "0", "0">>

\* the option labels stage maxconnections=50 and prune=0; maxconnections=200
\* stands for a staged value outside the range
NextConfig ==
    \/ OnMount(TRUE)
    \/ SettingsPanel_on_mount(None)
    \/ \E kv \in {<< <<"maxconnections">>, Str50>>,
                  << <<"maxconnections">>, Str200>>,
                  << <<"prune">>, <<"0">> >>} : on_click_option(kv[1], kv[2])
    \/ Len(applied) < MaxApplies /\ on_click_apply
    \/ \E c \in BOOLEAN, io \in {"ok", "read_fails"},
          r \in BOOLEAN : apply_confirmed(c, io, r, None, 1)
    \/ \E r \in BOOLEAN : apply_restart_answered(r, None)
    \/ \E ok \in BOOLEAN : apply_stop_done(ok)
    \/ apply_sleep_done(3)
    \/ \E ok \in BOOLEAN : apply_start_done(ok, None)

SpecConfig == Init /\ [][NextConfig]_vars

\* how often the config was reloaded by hand
Reloaded ==
    Cardinality({i \in DOMAIN added :
                    added[i].message = "Configuration reloaded"})

\* staging, applying and reloading: the staged values are valid, the file
\* is there and the file operations and the node commands succeed
NextStaging ==
    \/ OnMount(TRUE)
    \/ SettingsPanel_on_mount(None)
    \/ \E kv \in {<< <<"maxconnections">>, Str50>>,
                  << <<"prune">>, <<"0">> >>} : on_click_option(kv[1], kv[2])
    \/ Reloaded < MaxReloads /\ on_click_reload(None)
    \/ Len(applied) < MaxApplies /\ on_click_apply
    \/ \E c \in BOOLEAN, r \in BOOLEAN : apply_confirmed(c, "ok", r, None, 1)
    \/ \E r \in BOOLEAN : apply_restart_answered(r, None)
    \/ apply_stop_done(TRUE)
    \/ apply_sleep_done(3)
    \/ apply_start_done(TRUE, None)

InitStaging ==
    InitState /\ fs = [exists |-> TRUE, text |-> SampleText, backups |-> <<>>]

SpecStaging == InitStaging /\ [][NextStaging]_vars

\* the sample file with a connection cap outside 8..125
OutOfRangeText ==
    <<"#", " ", "node settings", "\n",
      "maxconnections", "=", "2", "0", "0", "\n",
      "txindex", "=", "1", "\n">>

\* staging, applying and resetting while another process edits the file:
\* the staged values are valid, the file operations succeed and the node
\* is not running
NextEdited ==
    \/ OnMount(TRUE)
    \/ SettingsPanel_on_mount(None)
    \/ \E kv \in {<< <<"dbcache">>, <<"4", "5", "0">> >>,
                  << <<"prune">>, <<"0">> >>} : on_click_option(kv[1], kv[2])
    \/ \E t \in {SampleText, OutOfRangeText} : external_edit(t)
    \/ Len(applied) < MaxApplies /\ on_click_apply
    \/ \E c \in BOOLEAN : apply_confirmed(c, "ok", FALSE, None, 1)
    \/ Len(applied) < MaxApplies /\ on_click_reset
    \/ \E c \in BOOLEAN : reset_confirmed(c, "ok", None, 1)

InitEdited ==
    /\ InitState
    /\ fs \in {[exists |-> TRUE, text |-> t, backups |-> <<>>] :
                 t \in {SampleText, OutOfRangeText}}

SpecEdited == InitEdited /\ [][NextEdited]_vars

\* a restart from the controls panel while the app's refresh timer and the
\* panel's status timer fire
NextRestart ==
    \/ OnMount(TRUE)
    \/ Len(log) < MaxPartialCycles /\ TimerTick(TRUE)
    \/ status_tick
    \/ on_click_restart
    \/ \E c \in BOOLEAN, r \in BOOLEAN : restart_confirmed(c, r)
    \/ \E ok \in BOOLEAN : restart_stop_done(ok)
    \/ restart_sleep_done
    \/ \E ok \in BOOLEAN : restart_start_done(ok)
    \/ restart_status_done

SpecRestart == Init /\ [][NextRestart]_vars

(***************************************************************************)
(* Refresh cycles in which any subset of the queries fails                 *)
(***************************************************************************)
\* the first gather returns: each of its five queries has answered or failed
GatherStep ==
    \E bi \in {None, Synced}, ni \in {None, Net(5)}, pi \in {None, Ok},
       mi \in {None, Ok}, up \in {None, Some(7)} :
          GatherDone(bi, ni, pi, mi, up, 1)

\* the fee estimates return, each answered or failed
FeesStep == \E f1 \in {None, Ok}, f3 \in {None, Ok}, f6 \in {None, Ok} :
                FeesDone(f1, f3, f6)

NextPartial ==
    \/ OnMount(TRUE)
    \/ Len(log) < MaxPartialCycles /\ TimerTick(TRUE)
    \/ \E t \in {"home", "blockchain"} : action_switch_tab(t)
    \/ GatherStep
    \/ FeesStep

\* the config file plays no part in a refresh cycle
InitPartial == InitState /\ fs = NoFile

SpecPartial == InitPartial /\ [][NextPartial]_vars

\* every await of refresh_data returns: each command is bounded by
\* wait_for(..., timeout=5)
SpecPartialFair ==
    SpecPartial /\ WF_vars(GatherStep) /\ WF_vars(FeesStep)

(***************************************************************************)
(* The config store                                                        *)
(***************************************************************************)
\* the four validated keys and two others
SettingKeys ==
    {<<"prune">>, <<"maxconnections">>, <<"dbcache">>, <<"rpcport">>,
     <<"server">>, <<"txindex">>}

\* values at and around every limit, and values that are no ASCII integer
SettingValues ==
    {<<>>, <<"0">>, <<"0", "0">>, <<"3">>, <<"4">>, <<"7">>, <<"8">>,
     <<"1", "2", "5">>, <<"1", "2", "6">>, <<"5", "4", "9">>,
     <<"5", "5", "0">>, <<"0", "5", "5", "0">>, <<"1", "0", "2", "3">>,
     <<"1", "0", "2", "4">>, <<"1", "6", "3", "8", "4">>,
     <<"1", "6", "3", "8", "5">>, <<"6", "5", "5", "3", "5">>,
     <<"6", "5", "5", "3", "6">>, <<"-", "5", "0">>, <<"abc">>,
     <<"5", "^2">>, <<" ", "5", "0">>, <<"U+0665", "0">>, <<"5", ".", "0">>}

\* config files: the sample, one with \r\n line ends, one with a key on
\* two lines, a blank line, a line without '=', blanks around '=' and no
\* final line end, and the one below; or none
CrlfText ==
    <<"#", " ", "note", "\r", "\n",
      "maxconnections", "=", "1", "2", "5", "\r", "\n">>

RepeatText ==
    <<"maxconnections", "=", "1", "0", "\n", "\n", "[main]", "\n",
      " ", "maxconnections", " ", "=", " ", "2", "0", " ", "\n",
      "txindex", "=", "1">>

\* an indented comment with an '=', a key with blanks around its '=', a line
\* with no key, a line with no value, and the first key again with an '='
\* in its value
TrickyText ==
    <<" ", "#", "prune", "=", "1", "\n",
      "rpcauth", " ", "=", " ", "other", "\n",
      "=", "1", "\n",
      "txindex", "=", "\n",
      "rpcauth", "=", "user", ":", "salt", "=", "hash", "\n">>

StoreFiles ==
    {NoFile} \cup {[exists |-> TRUE, text |-> t, backups |-> <<>>] :
                     t \in {SampleText, CrlfText, RepeatText, TrickyText}}

\* settings as apply_changes and reset_to_defaults pass them: keys and
\* values as read_config and the option labels give them
StoreSettings ==
    {<< << <<"maxconnections">>, Str50>> >>,
     << << <<"prune">>, <<"0">> >>, << <<"maxconnections">>, Str50>> >>,
     << << <<"prune">>, <<"0">> >> >>}

InitStore == InitState /\ fs \in StoreFiles

NextStore ==
    \/ \E S \in StoreSettings, stat \in {"ok", "raises"} :
          wc.writes < MaxWrites /\ wc_call(S, stat)
    \/ \E ok \in BOOLEAN : wc_backup(ok)
    \/ \E ok \in BOOLEAN : wc_read(ok)
    \/ \E ok \in BOOLEAN : wc_open(ok)
    \/ \E ok \in BOOLEAN, kept \in {0, 1} : wc_write(ok, kept)
    \/ \E err \in {None} \cup {Some(n) : n \in 0..MaxReadLines} :
          ReadConfig(err)

SpecStore == InitStore /\ [][NextStore]_vars

NextValidate == \E k \in SettingKeys, v \in SettingValues : Validate(k, v)

SpecValidate == Init /\ [][NextValidate]_vars

(***************************************************************************)
(* Claims about the refresh orchestrator                                   *)
(***************************************************************************)
\* how often the alert `message` was emitted by cycle i
Emitted(i, message) ==
    Cardinality({k \in DOMAIN log[i].alerts :
                    log[i].alerts[k].message = message})

\* the last cycle before i that saw the chain-state query's outcome; 0 if none
PrevObserved(i) ==
    IF \E j \in 1..(i - 1) : log[j].chain # "pending"
    THEN CHOOSE j \in 1..(i - 1) :
            /\ log[j].chain # "pending"
            /\ \A k \in (j + 1)..(i - 1) : log[k].chain = "pending"
    ELSE 0

\* the last cycle before i that ran to completion; 0 if none
PrevCompleted(i) ==
    IF \E j \in 1..(i - 1) : log[j].end = "done"
    THEN CHOOSE j \in 1..(i - 1) :
            /\ log[j].end = "done"
            /\ \A k \in (j + 1)..(i - 1) : log[k].end # "done"
    ELSE 0

\* C1: at most one refresh cycle is in flight, and a trigger that arrives
\* while a cycle is in flight is dropped: every cycle that starts runs to
\* completion, none is cancelled.
C1_TriggerDropped ==
    /\ \A i \in DOMAIN log : log[i].end = "running" => i = Len(log)
    /\ \A i \in DOMAIN log : log[i].end # "cancelled"

\* what run_worker(exclusive=True) gives: only the newest cycle can be
\* running, the worker exists exactly then, and a cancelled cycle always has
\* a successor
OneCycleInFlight ==
    /\ \A i \in DOMAIN log : log[i].end = "running" => i = Len(log)
    /\ \A i \in DOMAIN log : log[i].end = "cancelled" => i < Len(log)
    /\ worker.phase # "none" <=> (log # <<>> /\ Last(log).end = "running")

\* C2: a cycle emits 'Node not responding!' once when its chain-state query
\* fails and the preceding completed cycle's query succeeded, not at all when
\* it fails directly after another failed cycle, and never when its query
\* succeeds or more than once.
C2_UnresponsiveOnFallingEdge ==
    \A i \in DOMAIN log :
        LET n == Emitted(i, "Node not responding!")
        IN  /\ n <= 1
            /\ log[i].chain # "fail" => n = 0
            /\ (/\ log[i].chain = "fail"
                /\ PrevCompleted(i) # 0
                /\ log[PrevCompleted(i)].chain = "ok") => n = 1
            /\ (/\ log[i].chain = "fail"
                /\ PrevObserved(i) # 0
                /\ log[PrevObserved(i)].chain = "fail") => n = 0

C2_Witness ==
    /\ Len(log) >= 3
    /\ log[1].chain = "ok" /\ log[1].end = "done"
    /\ log[2].chain = "fail" /\ Emitted(2, "Node not responding!") = 1
    /\ log[3].chain = "fail" /\ Emitted(3, "Node not responding!") = 0

\* C3: a cycle emits 'Node connection restored' once exactly when its
\* chain-state query succeeds and the last cycle before it that saw a result
\* saw a failure; every other cycle emits none.
C3_RestoredOnRisingEdge ==
    \A i \in DOMAIN log :
        LET n == Emitted(i, "Node connection restored")
            rising == /\ log[i].chain = "ok"
                      /\ PrevObserved(i) # 0
                      /\ log[PrevObserved(i)].chain = "fail"
        IN  /\ n <= 1
            /\ n = 1 <=> rising

C3_Witness ==
    /\ Len(log) >= 4
    /\ log[1].chain = "ok" /\ Emitted(1, "Node connection restored") = 0
    /\ log[2].chain = "fail"
    /\ log[3].chain = "ok" /\ Emitted(3, "Node connection restored") = 1
    /\ log[4].chain = "ok" /\ Emitted(4, "Node connection restored") = 0

\* the cycles that observed a peer count, in order
PeerCycles == SelectSeq(log, LAMBDA e : e.peers # None)

PeerCounts == [k \in DOMAIN PeerCycles |-> Val(PeerCycles[k].peers)]

PeerAlerts(k) ==
    [j \in DOMAIN PeerCycles[k].alerts |-> PeerCycles[k].alerts[j].message]

\* C4: over the observed peer counts, index k emits the low-peer warning
\* exactly when count[k] < 3 and count[k-1] >= 3, the recovery alert exactly
\* when count[k] >= 3 and count[k-1] < 3, and nothing otherwise.
C4_PeerThresholdEdges ==
    \A k \in DOMAIN PeerCounts :
        LET c == PeerCounts[k]
            falling == k > 1 /\ c < 3 /\ PeerCounts[k - 1] >= 3
            rising == k > 1 /\ c >= 3 /\ PeerCounts[k - 1] < 3
        IN  PeerAlerts(k) =
                IF falling THEN <<"Low peer count: " \o ToString(c)>>
                ELSE IF rising THEN <<"Peer count recovered: " \o ToString(c)>>
                ELSE <<>>

\* the sequence [5,5,2,2,4]: one low-peer alert at index 2 (counting from
\* 0), one recovery alert at index 4, nothing at indexes 0, 1 and 3
C4_Witness ==
    /\ PeerCounts = <<5, 5, 2, 2, 4>>
    /\ PeerAlerts(1) = <<>>
    /\ PeerAlerts(2) = <<>>
    /\ PeerAlerts(3) = <<"Low peer count: 2">>
    /\ PeerAlerts(4) = <<>>
    /\ PeerAlerts(5) = <<"Peer count recovered: 4">>

(***************************************************************************)
(* Claims about the sync estimator                                         *)
(***************************************************************************)

\* C5: update() returns a true value exactly on the calls whose flag is
\* false while the previous call's flag was true, and a false value (None on
\* the first call, False afterwards) on every other call.
C5_UpdateEdgeTriggered ==
    \A i \in 1..Len(calls) :
        Truthy(calls[i].ret) <=>
            (i > 1 /\ calls[i - 1].is_syncing /\ ~calls[i].is_syncing)

C5_Witness ==
    /\ Len(calls) = 3
    /\ calls[1].is_syncing /\ ~calls[2].is_syncing /\ ~calls[3].is_syncing
    /\ calls[1].ret = None
    /\ calls[2].ret = Some(TRUE)
    /\ calls[3].ret = Some(FALSE)

\* C6: get_blocks_per_hour() is never negative, also when the block height
\* decreases between samples.
C6_ThroughputNonNegative == RateSign(get_blocks_per_hour(tracker)) >= 0

\* C7: get_eta(current, total) is None whenever current >= total, whenever
\* fewer than 2 samples are retained, and whenever the throughput is 0.
C7_EtaAbsent ==
    \A c \in Heights, t \in Heights :
        (\/ c >= t
         \/ Len(tracker.history) < 2
         \/ RateSign(get_blocks_per_hour(tracker)) = 0)
            => get_eta(tracker, c, t) = None

C7_Witness ==
    /\ Len(tracker.history) >= 2
    /\ RateSign(get_blocks_per_hour(tracker)) = 1
    /\ query # None
    /\ Val(query).blocks > Val(query).headers
    /\ Val(query).eta = None

\* C8: whenever get_eta() returns a duration, the duration is strictly
\* positive, for every sample history.
C8_EtaPositive ==
    \A c \in Heights, t \in Heights :
        get_eta(tracker, c, t) # None => Val(get_eta(tracker, c, t)) > 0

\* C9: for a fixed positive throughput and a fixed total, get_eta is strictly
\* decreasing in the current height: c1 < c2 < total gives
\* eta(c1, total) > eta(c2, total).
C9_EtaDecreasing ==
    RateSign(get_blocks_per_hour(tracker)) = 1 =>
        \A c1 \in Heights, c2 \in Heights, t \in Heights :
            (c1 < c2 /\ c2 < t) =>
                /\ get_eta(tracker, c1, t) # None
                /\ get_eta(tracker, c2, t) # None
                /\ Val(get_eta(tracker, c1, t)) > Val(get_eta(tracker, c2, t))

C9_Witness ==
    /\ RateSign(get_blocks_per_hour(tracker)) = 1
    /\ query # None
    /\ Val(query).blocks + 1 < Val(query).headers
    /\ Val(query).eta # None
    /\ Val(Val(query).eta) > Val(get_eta(tracker, Val(query).blocks + 1,
                                              Val(query).headers))

(***************************************************************************)
(* Claims about applying settings                                          *)
(***************************************************************************)
\* some staged entry of the change set fails validate_setting
HasInvalid(pending) ==
    \E i \in 1..Len(pending) :
        ~validate_setting(pending[i][1], pending[i][2]).valid

\* the key of the first staged entry that fails validation
FirstInvalidKey(pending) ==
    pending[CHOOSE j \in 1..Len(pending) :
              /\ ~validate_setting(pending[j][1], pending[j][2]).valid
              /\ \A m \in 1..(j - 1) :
                    validate_setting(pending[m][1], pending[m][2]).valid][1]

\* C10: a confirmed apply whose pending change set holds an entry that
\* fails validation, at any position, writes nothing: the config file and
\* the backups are as they were, no stop or start command is issued, the
\* run ends there, and its one alert is the validation-failed error naming
\* the first invalid key, shown last in the alerts panel
C10_InvalidApplyWritesNothing ==
    \A i \in 1..Len(applied) :
        (applied[i].confirmed /\ HasInvalid(applied[i].pending)) =>
            /\ applied[i].fs_after = applied[i].fs_before
            /\ applied[i].commands = <<>>
            /\ applied[i].end = "done"
            /\ applied[i].alerts =
                 <<"Validation failed: Invalid value for "
                   \o Text(FirstInvalidKey(applied[i].pending))>>
            /\ (i = Len(applied) /\ applying.phase = "none") =>
                 /\ Last(alerts).message = applied[i].alerts[1]
                 /\ Last(alerts).level = "error"

\* a confirmed apply met an invalid entry staged after a valid one, while
\* an earlier apply of the same run of the program had written the file
C10_Witness ==
    /\ Len(applied) = 2
    /\ applied[1].fs_after # applied[1].fs_before
    /\ applied[2].confirmed
    /\ Len(applied[2].pending) = 2
    /\ validate_setting(applied[2].pending[1][1],
                        applied[2].pending[1][2]).valid
    /\ ~validate_setting(applied[2].pending[2][1],
                         applied[2].pending[2][2]).valid
    /\ fs = applied[2].fs_before

(***************************************************************************)
(* Claims about the config store                                           *)
(***************************************************************************)
\* v is written with decimal digits only and denotes an integer in lo..hi
IntegerIn(v, lo, hi) ==
    /\ v # <<>>
    /\ \A i \in DOMAIN v : v[i] \in Decimals
    /\ lo <= int(v) /\ int(v) <= hi

\* v is written with decimal digits only and denotes an integer >= lo
IntegerAtLeast(v, lo) ==
    /\ v # <<>>
    /\ \A i \in DOMAIN v : v[i] \in Decimals
    /\ lo <= int(v)

\* C11: validate_setting succeeds exactly when the key is prune and the
\* value is '0' or a decimal integer >= 550, the key is maxconnections and
\* the value an integer in [8,125], dbcache and [4,16384], rpcport and
\* [1024,65535], or the key is any other key; values with a sign or a
\* character that is no digit fail for the four known keys.
C11_ValidateSetting ==
    checked # None =>
        LET k == Val(checked).key
            v == Val(checked).value
            expected ==
                CASE k = <<"prune">> ->
                         v = <<"0">> \/ IntegerAtLeast(v, 550)
                  [] k = <<"maxconnections">> -> IntegerIn(v, 8, 125)
                  [] k = <<"dbcache">> -> IntegerIn(v, 4, 16384)
                  [] k = <<"rpcport">> -> IntegerIn(v, 1024, 65535)
                  [] OTHER -> TRUE
        IN  /\ Val(checked).result.valid <=> expected
            /\ (/\ k \notin {<<"server">>, <<"txindex">>}
                /\ \E i \in DOMAIN v : v[i] \notin Decimals)
               => ~Val(checked).result.valid

\* the pruning floor itself was accepted
C11_Witness ==
    /\ checked # None
    /\ Val(checked).key = <<"prune">>
    /\ Val(checked).value = <<"5", "5", "0">>
    /\ Val(checked).result.valid

\* the keys of a dict
Keys(d) == {d[i][1] : i \in DOMAIN d}

\* what read_config gave for the file as it was when write_config was called
PreSettings ==
    read_config([exists |-> TRUE, text |-> wc.pre, backups |-> <<>>], None)

\* write_config has returned success and read_config has been called since,
\* without a read error
ReadBack ==
    wc.pc = "done" /\ wc.result = "ok" /\ wc.read # None /\ wc.read_err = None

\* C12: after a successful write_config(S), read_config() returns S[k] for
\* every key k of S, the pre-write value for every key of the file that is
\* not in S, and no other key.
C12_RoundTrip ==
    ReadBack =>
        LET got == Val(wc.read)
        IN  /\ Keys(got) = Keys(wc.settings) \cup Keys(PreSettings)
            /\ \A k \in Keys(wc.settings) :
                  dict_get(got, k) = dict_get(wc.settings, k)
            /\ \A k \in Keys(PreSettings) \ Keys(wc.settings) :
                  dict_get(got, k) = dict_get(PreSettings, k)

\* the file that names maxconnections on two lines was written with
\* {prune: 0, maxconnections: 50} and read back
C12_Witness ==
    /\ ReadBack
    /\ wc.pre = RepeatText
    /\ Keys(wc.settings) = {<<"prune">>, <<"maxconnections">>}
    /\ dict_get(Val(wc.read), <<"maxconnections">>) = Str50
    /\ dict_get(Val(wc.read), <<"txindex">>) = <<"1">>

\* write_config has returned success
Written == wc.pc = "done" /\ wc.result = "ok"

\* a line of the file that write_config(S) has no reason to touch: a comment,
\* a blank line, a line without '=', or a key=value line whose key is not in S
Untouched(line, S) ==
    LET stripped == strip(line)
    IN  \/ stripped = <<>>
        \/ stripped[1] = "#"
        \/ ~Contains(stripped, "=")
        \/ strip(split1(stripped, "=")[1]) \notin Keys(S)

\* the original lines, byte for byte, with each line whose key is in S
\* replaced in place by key=value
RECURSIVE InPlace(_, _)
InPlace(lines, S) ==
    IF lines = <<>> THEN <<>>
    ELSE (IF Untouched(lines[1], S) THEN lines[1]
          ELSE strip(split1(strip(lines[1]), "=")[1]) \o <<"=">>
               \o dict_get(S, strip(split1(strip(lines[1]), "=")[1]))
               \o <<"\n">>)
         \o InPlace(Tail(lines), S)

IsPrefix(a, b) == Len(a) <= Len(b) /\ SubSeq(b, 1, Len(a)) = a

\* C13: after a successful write_config(S) the file begins with its original
\* lines in their original order, every comment, blank line, line without
\* '=' and line of a key not in S byte-for-byte unchanged, and each line of
\* a key in S rewritten in place.
C13_FramePreserved ==
    Written => IsPrefix(InPlace(splitlines(wc.pre), wc.settings), fs.text)

\* the keys that occur on a key=value line of a text
OccurringKeys(text) ==
    {strip(split1(strip(l), "=")[1]) :
        l \in {m \in {readlines(text)[i] : i \in DOMAIN readlines(text)} :
                 /\ strip(m) # <<>>
                 /\ strip(m)[1] # "#"
                 /\ Contains(strip(m), "=")}}

\* one commented key=value line for each entry of S whose key is not in
\* `present`, in the order of S
RECURSIVE Appended(_, _)
Appended(S, present) ==
    IF S = <<>> THEN <<>>
    ELSE (IF S[1][1] \in present THEN <<>>
          ELSE <<"\n", "#", " ", "Added by NodePulse", "\n">>
               \o S[1][1] \o <<"=">> \o S[1][2] \o <<"\n">>)
         \o Appended(Tail(S), present)

\* C14: after a successful write_config(S) the file is as many lines as the
\* original had, followed by exactly one commented key=value line for each
\* key of S that occurs on no key=value line of the original, and by nothing
\* for the keys that occur.
C14_AppendsMissingKeys ==
    Written =>
        LET tail == Appended(wc.settings, OccurringKeys(wc.pre))
            n == Len(fs.text) - Len(tail)
        IN  /\ n >= 0
            /\ SubSeq(fs.text, n + 1, Len(fs.text)) = tail
            /\ Len(splitlines(SubSeq(fs.text, 1, n)))
                 = Len(readlines(wc.pre))

\* the sample file written with {prune: 0, maxconnections: 50}: the comment
\* and txindex untouched, maxconnections=50 in place, prune=0 appended
C14_Witness ==
    /\ Written
    /\ wc.pre = SampleText
    /\ fs.text = <<"#", " ", "node settings", "\n",
                   "maxconnections", "=", "5", "0", "\n",
                   "txindex", "=", "1", "\n",
                   "\n", "#", " ", "Added by NodePulse", "\n",
                   "prune", "=", "0", "\n">>

\* C15: write_config always returns a result and never raises; on a
\* missing file the result is a failure with a message, and there is no
\* config file and no backup afterwards.
C15_FailureReturned ==
    wc.pc = "done" =>
        /\ wc.result \in {"ok", "not_found", "error"}
        /\ ~fs.exists =>
              /\ returned(wc.result)[1] = FALSE
              /\ returned(wc.result)[2] # ""
              /\ fs.backups = <<>>

\* C16: the config file is not mutated before the backup copy has been
\* attempted, and a failed backup does not block the write: write_config
\* fails only when reading, opening or writing the config file fails.
C16_BackupFirstBestEffort ==
    /\ (wc.pc = "write" \/ (wc.pc = "done" /\ fs.text # wc.pre))
          => wc.backup # "none"
    /\ (wc.pc = "done" /\ wc.result = "error") => wc.failed # "none"
    /\ wc.backup = "failed" => wc.pc \in {"read", "open", "write", "done"}

\* the backup failed and write_config rewrote the file and returned success
C16_Witness ==
    /\ Written
    /\ wc.backup = "failed"
    /\ fs.backups = <<>>
    /\ fs.text = writelines(wc.new_lines)
    /\ fs.text # wc.pre

\* C17: at every point of a write_config execution before its success, and
\* after an I/O error, the complete pre-write contents are in the config
\* file or in a backup copy.
C17_CrashSafe ==
    (\/ wc.pc \in {"backup", "read", "open", "write"}
     \/ (wc.pc = "done" /\ wc.result = "error"))
        => \/ fs.text = wc.pre
           \/ \E t \in DOMAIN fs.backups : fs.backups[t] = wc.pre

(***************************************************************************)
(* Claims about partial failure                                            *)
(***************************************************************************)
\* the results of cycle i's first gather
Results(i) == Val(log[i].results)

\* in cycle i the chain-state query failed and the other four answered
OnlyChainFailed(i) ==
    /\ log[i].results # None
    /\ Results(i).blockchain_info = None
    /\ Results(i).network_info # None
    /\ Results(i).peer_info # None
    /\ Results(i).mempool_info # None
    /\ Results(i).uptime # None

\* C18: a cycle whose chain-state query fails while the others succeed
\* gives the panels the network, peer, mempool and uptime results with the
\* chain state absent, and emits exactly one 'Node not responding!' when the
\* last cycle before it that saw a result saw a success.
C18_PartialSnapshot ==
    \A i \in DOMAIN log :
        (OnlyChainFailed(i) /\ log[i].end = "done") =>
            /\ {"dashboard", "network", "mempool"} \subseteq log[i].shown
            /\ (PrevObserved(i) # 0 /\ log[PrevObserved(i)].chain = "ok")
                  => Emitted(i, "Node not responding!") = 1

\* C19: the dashboard of a finished cycle holds no network data when the
\* network query failed and no uptime, rather than 0 seconds, when the
\* uptime query failed.
C19_FailedFieldAbsent ==
    (/\ log # <<>>
     /\ Last(log).end = "done"
     /\ Last(log).results # None
     /\ "dashboard" \in Last(log).shown) =>
        /\ Results(Len(log)).blockchain_info = None
              => Val(panels.dashboard).blockchain_info = None
        /\ Results(Len(log)).network_info = None
              => Val(panels.dashboard).network_info = None
        /\ Results(Len(log)).uptime = None
              => Val(panels.dashboard).uptime # 0

\* what every cycle keeps to, whichever queries fail
PartialFailureTolerated ==
    \A i \in DOMAIN log :
        /\ log[i].end # "raised"
        /\ Emitted(i, "Node not responding!")
             + Emitted(i, "Node connection restored") <= 1
        /\ (log[i].end = "done" /\ log[i].results # None) =>
              /\ log[i].tab = "home" <=> "dashboard" \in log[i].shown
              /\ (log[i].chain = "ok" /\ log[i].tab = "blockchain") =>
                    /\ "storage" \in log[i].shown
                    /\ "network" \in log[i].shown
                          <=> Results(i).network_info # None
                    /\ "mempool" \in log[i].shown
                          <=> Results(i).mempool_info # None
        /\ (i = Len(log) /\ log[i].end = "done" /\ log[i].results # None) =>
              /\ "dashboard" \in log[i].shown =>
                    Val(panels.dashboard).network_info
                       = Results(i).network_info
              /\ "network" \in log[i].shown =>
                    /\ Val(panels.network).network_info
                          = Results(i).network_info
                    /\ Val(panels.network).peer_info = Results(i).peer_info
              /\ "mempool" \in log[i].shown =>
                    Val(panels.mempool).mempool_info
                       = Results(i).mempool_info

C21_AlertLogBounded ==
    /\ Len(alerts) <= 5
    /\ Len(alerts) = (IF Len(added) < 5 THEN Len(added) ELSE 5)
    /\ \A i \in DOMAIN alerts :
          alerts[i] = added[Len(added) - Len(alerts) + i]

\* more than five alerts were added since the last clearing, and the oldest
\* of them has left the log
C21_Witness ==
    /\ Len(added) > 5
    /\ Len(alerts) = 5
    /\ alerts[1] # added[1]
    /\ \E i \in DOMAIN added : added[i].message = "Alerts cleared"

(***************************************************************************)
(* Claims about the estimator's samples                                    *)
(***************************************************************************)
\* C22: after any sequence of update() calls the estimator retains at most
\* 60 samples, and they are the most recent ones in arrival order: once 60
\* are held, each new sample evicts the oldest.
C22_RingKeepsNewest ==
    LET h == tracker.history
        n == Len(calls)
    IN  /\ Len(h) <= 60
        /\ Len(h) = (IF n < 60 THEN n ELSE 60)
        /\ \A i \in DOMAIN h :
              h[i].blocks = (n - Len(h) + i) * (n - Len(h) + i)

\* the 62nd sample has arrived and the first two have been evicted
C22_Witness ==
    /\ Len(calls) = 62
    /\ Len(tracker.history) = 60
    /\ tracker.history[1].blocks = 9
    /\ Last(tracker.history).blocks = 62 * 62

\* the sample that opens the window of the newest min(12, n) samples
WindowStart(h) == h[Len(h) - (IF Len(h) < 12 THEN Len(h) ELSE 12) + 1]

\* the rates a / (b seconds) and c / (d seconds) are equal; b, d # 0
SameRate(a, b, c, d) == a * d = c * b

\* C23: get_blocks_per_hour() is the height difference between the newest
\* sample and the oldest of the newest min(12, n) samples, divided by the
\* hours elapsed between the two; it is 0 with fewer than 2 samples or no
\* time elapsed; older samples do not influence it.
C23_RateOverNewestTwelve ==
    query # None =>
        LET h == tracker.history
            bph == Val(query).bph
            elapsed == Last(h).time - WindowStart(h).time
        IN  IF Len(h) < 2 \/ elapsed = 0 THEN RateSign(bph) = 0
            ELSE SameRate(bph.blocks, bph.secs,
                          Last(h).blocks - WindowStart(h).blocks, elapsed)

\* a rate was computed from more than 12 samples, and it is not the rate
\* over all the samples held
C23_Witness ==
    /\ query # None
    /\ Len(tracker.history) > 12
    /\ RateSign(Val(query).bph) > 0
    /\ ~SameRate(Val(query).bph.blocks, Val(query).bph.secs,
                 Last(tracker.history).blocks - tracker.history[1].blocks,
                 Last(tracker.history).time - tracker.history[1].time)

\* the cycles whose chain-state query had the outcome `chain`
CyclesWith(lg, chain) == {i \in DOMAIN lg : lg[i].chain = chain}

\* C24: a refresh cycle whose chain-state query answered appends exactly
\* one sample to the estimator; a cycle whose chain-state query failed
\* leaves the estimator (samples, first-observed height, syncing latch) and
\* the stored previous peer count as they were; nothing else touches the
\* estimator.
C24_SamplePerSuccessfulCycle ==
    [][ /\ CyclesWith(log', "ok") # CyclesWith(log, "ok")
            => /\ Cardinality(CyclesWith(log', "ok"))
                    = Cardinality(CyclesWith(log, "ok")) + 1
               /\ Len(tracker'.history) = Len(tracker.history) + 1
               /\ SubSeq(tracker'.history, 1, Len(tracker.history))
                    = tracker.history
        /\ CyclesWith(log', "fail") # CyclesWith(log, "fail")
            => /\ tracker' = tracker
               /\ last_peer_count' = last_peer_count
        /\ CyclesWith(log', "ok") = CyclesWith(log, "ok")
            => tracker' = tracker ]_vars

\* a cycle answered and a later one failed: one sample is held and the peer
\* count of the first is still stored
C24_Witness ==
    /\ \E i, j \in DOMAIN log :
          i < j /\ log[i].chain = "ok" /\ log[j].chain = "fail"
    /\ Cardinality(CyclesWith(log, "ok")) = 1
    /\ Len(tracker.history) = 1
    /\ last_peer_count = Some(5)

(***************************************************************************)
(* Claims about restarting the node                                        *)
(***************************************************************************)
\* C25: a restart is stop, a 3 second delay, start: when start is issued
\* after stop, the stop succeeded and the 3 seconds elapsed in between; a
\* start that fails after a successful stop is reported as an error and
\* start is not issued again.
C25_RestartSequence ==
    \A i \in DOMAIN applied :
        LET e == applied[i]
        IN  /\ (Len(e.commands) >= 2 /\ e.commands[1] = "stop"
                /\ e.commands[2] = "start")
                => e.stop = Some(TRUE) /\ e.slept = Some(3)
            /\ (e.stop = Some(TRUE) /\ e.end = "done"
                /\ "Node restarted" \notin {e.alerts[k] : k \in DOMAIN e.alerts})
                => /\ \E k \in DOMAIN e.alerts :
                         e.alerts[k] = "Failed to start: error"
                   /\ e.commands = <<"stop", "start">>

(***************************************************************************)
(* Claims about the throttled queries                                      *)
(***************************************************************************)
\* how many of the cycles 1..i incremented the lookup counter
CountedUpTo(i) == Cardinality({j \in 1..i : log[j].counted})

\* C26 as stated: fee estimates and recent-block lookups are issued only
\* in cycles where the blockchain view is active, and the lookups run on
\* the cycles 3, 6, 9, ... counted over all cycles.
C26_LookupEveryThirdCycle ==
    \A i \in DOMAIN log :
        /\ log[i].queries # {} => log[i].tab = "blockchain"
        /\ "hashes" \in log[i].queries => i % 3 = 0

\* C26: fee estimates and recent-block lookups are issued only in cycles
\* that began with the blockchain view active and whose chain-state query
\* answered; the lookups are issued only in every third of the cycles that
\* got as far as the lookup counter (the 3rd, 6th, 9th, ... of them),
\* whatever the number of cycles in between.
C26_LookupEveryThirdCounted ==
    \A i \in DOMAIN log :
        /\ log[i].queries # {}
            => /\ log[i].tab = "blockchain"
               /\ log[i].chain = "ok"
               /\ "fees" \in log[i].queries
        /\ log[i].counted => "fees" \in log[i].queries
        /\ "hashes" \in log[i].queries
            => log[i].counted /\ CountedUpTo(i) % 3 = 0
        /\ "blocks" \in log[i].queries => "hashes" \in log[i].queries

\* the block lookups were issued in the fourth cycle, the third with the
\* blockchain view active
C26_Witness ==
    /\ Len(log) >= 4
    /\ {"hashes", "blocks"} \subseteq log[4].queries
    /\ CountedUpTo(4) = 3
    /\ log[1].tab = "home"

(***************************************************************************)
(* Claims about manual refresh requests                                    *)
(***************************************************************************)
\* C27: every manual refresh request made while no cycle is in flight,
\* from the refresh key or from the controls panel's Refresh Data label,
\* begins a refresh cycle.
C27_ManualRefreshBegins ==
    \A k \in DOMAIN requests :
        requests[k].idle => requests[k].cycle \in DOMAIN log

(***************************************************************************)
(* Claims about reading the config file                                    *)
(***************************************************************************)
\* read_config has been called and no read raised
ReadWhole == wc.read # None /\ wc.read_err = None

\* a line that is not blank, is no comment and has an '='
Significant(line) ==
    /\ strip(line) # <<>>
    /\ strip(line)[1] # "#"
    /\ Contains(strip(line), "=")

\* what stands before and after the first '=' of a line, trimmed
KeyOf(line) == strip(split1(strip(line), "=")[1])
ValueOf(line) == strip(split1(strip(line), "=")[2])

\* C28: read_config() returns an empty mapping when the file is absent;
\* otherwise it returns the mapping that has one key for each line that is
\* not blank, does not start with '#' and contains '=', the key being what
\* stands before the line's first '=' and the value what stands after it,
\* both trimmed, and the last line of a key giving its value.
C28_ReadConfigParses ==
    ReadWhole =>
        LET got == Val(wc.read)
            lines == readlines(fs.text)
            sig == {i \in DOMAIN lines : Significant(lines[i])}
        IN  IF ~fs.exists THEN got = <<>>
            ELSE /\ Keys(got) = {KeyOf(lines[i]) : i \in sig}
                 /\ \A a, b \in DOMAIN got : got[a][1] = got[b][1] => a = b
                 /\ \A i \in sig :
                       (\A j \in sig : j > i => KeyOf(lines[j]) # KeyOf(lines[i]))
                       => dict_get(got, KeyOf(lines[i])) = ValueOf(lines[i])

\* the file with a key on two lines was read: the later line gave the
\* value, '=' and all, and the commented-out key is not in the mapping
C28_Witness ==
    /\ ReadWhole
    /\ fs.text = TrickyText
    /\ Keys(Val(wc.read)) = {<<"rpcauth">>, <<>>, <<"txindex">>}
    /\ dict_get(Val(wc.read), <<"rpcauth">>)
         = <<"user", ":", "salt", "=", "hash">>
    /\ dict_get(Val(wc.read), <<"txindex">>) = <<>>

\* C29: when reading raises an I/O error at any line of the file,
\* read_config() returns an empty mapping, not the mapping of the lines
\* read before the error.
C29_ReadErrorGivesEmpty ==
    (wc.read # None /\ wc.read_err # None) => Val(wc.read) = <<>>

(***************************************************************************)
(* Claims about staged changes                                             *)
(***************************************************************************)
\* the step ends an apply_changes run that saved the configuration
ApplySucceeds ==
    /\ applied' # <<>>
    /\ Last(applied').end = "done"
    /\ (Len(applied') > Len(applied) \/ Last(applied).end = "running")
    /\ \E k \in DOMAIN Last(applied').alerts :
          Last(applied').alerts[k] = "Configuration saved"

\* the step is a declined confirmation
ApplyDeclined ==
    /\ Len(applied') > Len(applied)
    /\ applying.phase = "confirm"
    /\ ~Last(applied').confirmed

\* the step is a reload
Reloads ==
    /\ Len(added') > Len(added)
    /\ Last(added').message = "Configuration reloaded"

\* C30: staging a change modifies the pending set only; the config file
\* changes in no step but an apply the user has confirmed; a declined
\* confirmation leaves the file and the pending set unchanged; a successful
\* apply and a reload leave the pending set empty.
C30_StagingTouchesPendingOnly ==
    [][ /\ (pending_changes' # pending_changes /\ pending_changes' # <<>>)
            => UNCHANGED <<fs, current_settings>>
        /\ fs' # fs
            => /\ applying.phase = "confirm"
               /\ Last(applied').confirmed
        /\ ApplyDeclined => UNCHANGED <<fs, pending_changes>>
        /\ ApplySucceeds => pending_changes' = <<>>
        /\ Reloads => pending_changes' = <<>> ]_vars

\* a staged change was declined once, kept, applied the second time and
\* written; nothing is pending
C30_Witness ==
    /\ Len(applied) = 2
    /\ ~applied[1].confirmed
    /\ applied[2].confirmed
    /\ applied[2].pending = applied[1].pending
    /\ applied[2].pending # <<>>
    /\ applied[2].end = "done"
    /\ applied[2].alerts[1] = "Configuration saved"
    /\ applied[2].fs_after # applied[2].fs_before
    /\ fs = applied[2].fs_after
    /\ pending_changes = <<>>

(***************************************************************************)
(* Claims about the sample ring and the epoch baseline                     *)
(***************************************************************************)

\* every call of update() so far has appended its sample, whatever its height
EverySampleAppended ==
    Len(tracker.history) =
        (IF Len(calls) < max_history THEN Len(calls) ELSE max_history)

\* C31: in every reachable state each retained sample's timestamp is greater
\* than its predecessor's, and update() appends a sample whose height is
\* lower than the previous sample's instead of rejecting it.
C31_SamplesStrictlyTimeOrdered ==
    /\ \A i \in 2..Len(tracker.history) :
          tracker.history[i].time > tracker.history[i - 1].time
    /\ EverySampleAppended

\* C32: the epoch baseline is the height passed to the first update() call
\* ever made and stays so after that sample has left the ring;
\* get_blocks_synced() is the newest sample's height minus this baseline, and
\* 0 before any sample.
C32_BaselineIsFirstHeight ==
    /\ tracker.initial_blocks =
          (IF calls = <<>> THEN None ELSE Some(calls[1].blocks))
    /\ query # None =>
          Val(query).synced =
              (IF calls = <<>> THEN 0
               ELSE Last(calls).blocks - calls[1].blocks)

\* the first sample has been evicted from the full ring and the count of
\* synced blocks is still taken from its height
C32_Witness ==
    /\ Len(calls) = max_history + 1
    /\ Len(tracker.history) = max_history
    /\ tracker.history[1].blocks # calls[1].blocks
    /\ query # None
    /\ Val(query).synced = Last(tracker.history).blocks - calls[1].blocks
    /\ Val(query).synced # Last(tracker.history).blocks - tracker.history[1].blocks

(***************************************************************************)
(* Claims about repeated writes                                            *)
(***************************************************************************)

\* write_config(S) has returned success right after a successful
\* write_config(S) with the same settings
WrittenTwice ==
    /\ wc.pc = "done" /\ wc.result = "ok"
    /\ wc.prev # None
    /\ Val(wc.prev).settings = wc.settings

\* C34: for every existing file and settings S, a second write_config(S)
\* in a row leaves the file contents the first one produced: it appends no
\* further line and no further comment.
C34_WriteConfigIdempotent == WrittenTwice => fs.text = wc.pre

\* the first write turned \r\n into \n, rewrote a line and appended a key
\* with its comment; the second write of the same settings changed nothing
C34_Witness ==
    /\ WrittenTwice
    /\ Val(wc.prev).pre = CrlfText
    /\ ~Contains(fs.text, "\r")
    /\ Len(readlines(fs.text)) = Len(readlines(CrlfText)) + 3
    /\ dict_get(read_config(fs, None), <<"prune">>) = <<"0">>
    /\ dict_get(read_config(fs, None), <<"maxconnections">>) = Str50

(***************************************************************************)
(* Claims about alerts across failed cycles                                *)
(***************************************************************************)

PeerMessages ==
    {LowPeers(c).message : c \in 0..5} \cup
    {PeersRecovered(c).message : c \in 0..5}

\* the peer alerts of a cycle, in order
PeerAlertsOf(e) ==
    LET peer == SelectSeq(e.alerts, LAMBDA a : a.message \in PeerMessages)
    IN  [j \in DOMAIN peer |-> peer[j].message]

\* C36: the threshold comparison is against the most recent observed peer
\* count: a cycle whose chain-state or network query failed emits no peer
\* alert and leaves the baseline alone, the first observed count never
\* alerts, and a crossing between two observed counts alerts exactly once, on
\* the later of the two cycles, whatever failed cycles lie between them.
C36_PeerBaselineSkipsFailedCycles ==
    /\ \A i \in DOMAIN log : log[i].peers = None => PeerAlertsOf(log[i]) = <<>>
    /\ last_peer_count =
          (IF PeerCounts = <<>> THEN None ELSE Some(Last(PeerCounts)))
    /\ \A k \in DOMAIN PeerCounts :
          LET c == PeerCounts[k]
          IN  PeerAlertsOf(PeerCycles[k]) =
                  IF k > 1 /\ c < 3 /\ PeerCounts[k - 1] >= 3
                  THEN <<LowPeers(c).message>>
                  ELSE IF k > 1 /\ c >= 3 /\ PeerCounts[k - 1] < 3
                  THEN <<PeersRecovered(c).message>>
                  ELSE <<>>

\* a first count of 2 without an alert, then 4 (recovered); a failed
\* chain-state query and a failed network query; then 2: one low-peer alert
C36_Witness ==
    /\ Len(log) = 5
    /\ log[1].peers = Some(2) /\ PeerAlertsOf(log[1]) = <<>>
    /\ log[2].peers = Some(4)
    /\ PeerAlertsOf(log[2]) = <<PeersRecovered(4).message>>
    /\ log[3].chain = "fail" /\ log[3].peers = None
    /\ log[4].chain = "ok" /\ log[4].end = "done" /\ log[4].peers = None
    /\ log[5].peers = Some(2)
    /\ PeerAlertsOf(log[5]) = <<LowPeers(2).message>>
    /\ last_peer_count = Some(2)

\* how many of the cycles 1..i had their chain-state query answered
OkCyclesUpTo(i) == Cardinality({j \in 1..i : log[j].chain = "ok"})

\* C38: the sync-completed alert is emitted by exactly the first cycle that
\* observes syncing=false after a cycle that observed syncing=true, whether
\* or not failed cycles lie between the two, and by no other cycle.
C38_SyncCompletedOncePerPeriod ==
    \A i \in DOMAIN log :
        LET k == OkCyclesUpTo(i)
            ends == /\ log[i].chain = "ok"
                    /\ k > 1
                    /\ calls[k - 1].is_syncing
                    /\ ~calls[k].is_syncing
        IN  Emitted(i, "Blockchain sync completed!") = (IF ends THEN 1 ELSE 0)

\* syncing, a failed cycle, then synced (the alert), then synced again (none)
C38_Witness ==
    /\ Len(log) = 4
    /\ log[1].chain = "ok" /\ calls[1].is_syncing
    /\ log[2].chain = "fail"
    /\ log[3].chain = "ok" /\ ~calls[2].is_syncing
    /\ Emitted(3, "Blockchain sync completed!") = 1
    /\ log[4].chain = "ok" /\ ~calls[3].is_syncing
    /\ Emitted(4, "Blockchain sync completed!") = 0

RespMessages == {"Node not responding!", "Node connection restored"}

\* the responsiveness alerts of cycle i, in order
RespAlertsOf(i) ==
    LET resp == SelectSeq(log[i].alerts, LAMBDA a : a.message \in RespMessages)
    IN  [j \in DOMAIN resp |-> resp[j].message]

\* the last cycle up to i that emitted a responsiveness alert; 0 if none
LastResp(i) ==
    IF \E j \in 1..i : RespAlertsOf(j) # <<>>
    THEN CHOOSE j \in 1..i :
            /\ RespAlertsOf(j) # <<>>
            /\ \A m \in (j + 1)..i : RespAlertsOf(m) = <<>>
    ELSE 0

\* C37: whenever a refresh cycle is suspended, cancelled or finished, the
\* responsiveness latch is false exactly when the last responsiveness alert
\* emitted was node-unresponsive, and the unresponsive and restored alerts
\* alternate, starting with unresponsive.
C37_LatchAgreesWithAlerts ==
    /\ node_was_responsive <=>
          (LastResp(Len(log)) = 0
           \/ RespAlertsOf(LastResp(Len(log))) = <<"Node connection restored">>)
    /\ \A i \in DOMAIN log :
          RespAlertsOf(i) # <<>> =>
              RespAlertsOf(i) =
                  IF LastResp(i - 1) = 0
                     \/ RespAlertsOf(LastResp(i - 1)) =
                            <<"Node connection restored">>
                  THEN <<"Node not responding!">>
                  ELSE <<"Node connection restored">>

\* unresponsive, restored, then a cycle cancelled while suspended, then
\* unresponsive again: the latch is false
C37_Witness ==
    /\ Len(log) = 4
    /\ RespAlertsOf(1) = <<"Node not responding!">>
    /\ RespAlertsOf(2) = <<"Node connection restored">>
    /\ log[3].end = "cancelled" /\ RespAlertsOf(3) = <<>>
    /\ RespAlertsOf(4) = <<"Node not responding!">>
    /\ ~node_was_responsive

(***************************************************************************)
(* Claims about what an apply writes                                       *)
(***************************************************************************)

\* the apply or reset recorded by entry e wrote the file
Saved(e) ==
    \E k \in DOMAIN e.alerts :
        e.alerts[k] \in {"Configuration saved", "Reset to defaults"}

\* C33: a successful apply changes the on-disk value only of the staged
\* keys: every key=value line of another key has afterwards the exact text
\* it had on disk at the moment of the apply, also when the file was edited
\* by another process between the last load and the apply.
C33_ApplyTouchesStagedKeysOnly ==
    \A n \in DOMAIN applied :
        LET e == applied[n]
            before == readlines(e.fs_before.text)
            after == readlines(e.fs_after.text)
        IN  (e.op = "apply" /\ Saved(e)) =>
                \A i \in DOMAIN before :
                    (Significant(before[i])
                     /\ KeyOf(before[i]) \notin Keys(e.pending)) =>
                        /\ i <= Len(after)
                        /\ after[i] = before[i]

ValidatedKeys ==
    {<<"prune">>, <<"maxconnections">>, <<"dbcache">>, <<"rpcport">>}

\* the value of key k in the file f is one validate_setting rejects
Rejected(f, k) ==
    /\ dict_has(read_config(f, None), k)
    /\ ~validate_setting(k, dict_get(read_config(f, None), k)).valid

\* C39: every default passes validate_setting, and neither a reset nor an
\* apply puts into the file a value for prune, maxconnections, dbcache or
\* rpcport that validate_setting rejects: such a value is in the file after
\* the write only if the file held that very value when the write began.
C39_WritesOnlyValidatedValues ==
    /\ \A i \in DOMAIN get_default_settings :
          validate_setting(get_default_settings[i][1],
                           get_default_settings[i][2]).valid
    /\ \A n \in DOMAIN applied :
          LET e == applied[n]
          IN  Saved(e) =>
                \A k \in ValidatedKeys :
                    Rejected(e.fs_after, k) =>
                        /\ Rejected(e.fs_before, k)
                        /\ dict_get(read_config(e.fs_before, None), k) =
                               dict_get(read_config(e.fs_after, None), k)

\* the part of C39 about the defaults and the reset
C39_ResetWritesValidValues ==
    /\ \A i \in DOMAIN get_default_settings :
          validate_setting(get_default_settings[i][1],
                           get_default_settings[i][2]).valid
    /\ \A n \in DOMAIN applied :
          (applied[n].op = "reset" /\ Saved(applied[n])) =>
              \A k \in ValidatedKeys : ~Rejected(applied[n].fs_after, k)

(***************************************************************************)
(* Claims about the controls panel's restart                               *)
(***************************************************************************)

\* C35: a confirmed restart runs to completion whatever the timers do: no
\* timer-triggered worker cancels it between its successful stop and its
\* start attempt, so that the start is issued and a success or failure
\* alert is emitted.
C35_RestartNotCancelledByTimers ==
    ~(ctl.phase = "cancelled" /\ ctl.stopped /\ ~ctl.started)

================================================================
